---- MODULE Spec2Model ----
(***************************************************************************)
(* A model of the lyn compiler middle-end: the IR graph with its use-def   *)
(* bookkeeping (compiler/ir.py) and the on-the-fly SSA builder             *)
(* (compiler/ssa_constr.py).                                               *)
(*                                                                         *)
(* Instructions live in an arena `ins` (a sequence of records); an         *)
(* instruction is identified by its index, which plays the role of the     *)
(* Python object identity (`is`).  Python's `==` on instructions is the    *)
(* structural __eq__ of ir.py, modelled by PyEq; list membership, index    *)
(* and remove use identity-or-__eq__ as CPython does.                      *)
(***************************************************************************)
EXTENDS Integers, Sequences, FiniteSets, TLC

\* ------------------------------------------------------------------ bounds
MaxInstr == 3      \* size of the instruction arena

Blocks == {1, 2, 3}
Names  == {"x", "y"}
None   == 0

AssignKinds == {"Const", "BinOp", "Cast", "Id", "FunctionCall", "Phi"}
CallKinds   == {"FunctionCall", "ProcedureCall"}

\* ------------------------------------------------------- generic sequences
RemoveAt(s, i) == SubSeq(s, 1, i - 1) \o SubSeq(s, i + 1, Len(s))
InsertAt(s, i, e) == SubSeq(s, 1, i - 1) \o <<e>> \o SubSeq(s, i, Len(s))
Range(s) == {s[i] : i \in DOMAIN s}

\* Body applied to the value v (v is evaluated once, where it is written)
With(v, Body(_)) == Body(v)

\* ---------------------------------------------------------- Python __eq__
\* The result of a comparison is "T", "F" or "E"; "E" is the RecursionError
\* that CPython raises when __eq__ recurses without end (a pair of objects
\* that is compared again while its own comparison is still running).
RECURSIVE EqInstr(_, _, _, _)
RECURSIVE EqList(_, _, _, _, _)

\* list.__eq__: lengths first, then item by item, identical items are equal
\* without calling __eq__, the first unequal pair ends the comparison
EqList(ins, s, t, k, stk) ==
    IF Len(s) # Len(t) THEN "F"
    ELSE IF k > Len(s) THEN "T"
    ELSE IF s[k] = t[k] THEN EqList(ins, s, t, k + 1, stk)
    ELSE LET r == EqInstr(ins, s[k], t[k], stk)
         IN  IF r = "T" THEN EqList(ins, s, t, k + 1, stk) ELSE r

\* AssignmentInstruction.__eq__: name and instr_type (ssa_id is not compared)
EqAssign(A, B) == A.name = B.name /\ A.ty = B.ty

EqInstr(ins, a, b, stk) ==
    LET A == ins[a]
        B == ins[b]
        st2 == stk \cup {<<a, b>>}
    IN  IF <<a, b>> \in stk THEN "E"
        ELSE IF A.kind # B.kind THEN "F"
        ELSE IF A.kind = "Const"
             THEN IF EqAssign(A, B) /\ A.val = B.val THEN "T" ELSE "F"
        ELSE IF A.kind = "BinOp"
             THEN IF ~(EqAssign(A, B) /\ A.val = B.val) THEN "F"
                  ELSE LET r == EqInstr(ins, A.ops[1], B.ops[1], st2)
                       IN  IF r = "T" THEN EqInstr(ins, A.ops[2], B.ops[2], st2)
                           ELSE r
        ELSE IF A.kind \in {"Cast", "Id"}
             THEN IF ~EqAssign(A, B) THEN "F"
                  ELSE EqInstr(ins, A.ops[1], B.ops[1], st2)
        ELSE IF A.kind = "Phi"
             THEN IF ~EqAssign(A, B) THEN "F"
                  ELSE EqList(ins, A.ops, B.ops, 1, st2)
        ELSE IF A.kind = "FunctionCall"
             THEN IF A.val # B.val THEN "F"
                  ELSE LET r == EqList(ins, A.ops, B.ops, 1, st2)
                       IN  IF r = "T" THEN (IF EqAssign(A, B) THEN "T" ELSE "F")
                           ELSE r
        ELSE IF A.kind = "ProcedureCall"
             THEN IF A.val # B.val THEN "F"
                  ELSE EqList(ins, A.ops, B.ops, 1, st2)
        ELSE IF A.kind = "Ubr"
             THEN IF A.val = B.val THEN "T" ELSE "F"
        ELSE IF A.kind = "Cbr"
             THEN LET r == EqInstr(ins, A.ops[1], B.ops[1], st2)
                  IN  IF r = "T" THEN (IF A.val = B.val THEN "T" ELSE "F") ELSE r
        ELSE \* Return
             IF A.ty # B.ty THEN "F"
             ELSE EqInstr(ins, A.ops[1], B.ops[1], st2)

\* a == b
PyEq(ins, a, b) == EqInstr(ins, a, b, {})

\* The index of the first item of list s that is x or equals x (what `in`,
\* list.index and list.remove look for): 0 when there is none, -1 when a
\* comparison on the way raised.
RECURSIVE FindFrom(_, _, _, _)
FindFrom(ins, s, x, k) ==
    IF k > Len(s) THEN 0
    ELSE IF s[k] = x THEN k
    ELSE With(PyEq(ins, s[k], x), LAMBDA r :
              IF r = "T" THEN k
              ELSE IF r = "E" THEN -1
              ELSE FindFrom(ins, s, x, k + 1))

Find(ins, s, x) == FindFrom(ins, s, x, 1)

\* ------------------------------------------------------------ program state
\* A state S of the program is a record
\*   ins    : the instruction arena; per instruction its variant (kind), name,
\*            instr_type (ty), payload (val: constant value, Op, callee or branch
\*            targets), SSA operand fields in layout order (ops), block, users,
\*            used_vars (used) and ssa_id (ssa; -1 is Python's None)
\*   blk    : per block its instrs, phis, preds and succs lists
\*   vars   : SSA.variables, per name the counter (-1: name not registered) and
\*            current_def (per block; -1: no entry, 0: the entry is None)
\*   inc    : SSA.incomplete_phis, per block the (name, phi) entries in insertion order
\*   sealed : SSA.sealed_blocks
\*   err    : "ok", or the exception that ended the running call
\*   ret    : the value the last builder call returned (0: None)
OK(S) == S.err = "ok"
Fail(S, e) == IF OK(S) THEN [S EXCEPT !.err = e] ELSE S

IsAssign(S, i) == i # None /\ S.ins[i].kind \in AssignKinds

NewRec(kind, name, ty, val, ops) ==
    [kind |-> kind, name |-> name, ty |-> ty, val |-> val, ops |-> ops,
     block |-> None, users |-> <<>>, used |-> <<>>, ssa |-> -1]

\* an add_user that appends without looking at the list
add_user_unguarded(S, self, instr) ==
    IF ~OK(S) THEN S ELSE [S EXCEPT !.ins[self].users = Append(@, instr)]

\* Instruction.add_user
add_user(S, self, instr) ==
    IF ~OK(S) THEN S
    ELSE With(Find(S.ins, S.ins[self].users, instr), LAMBDA f :
              IF f = -1 THEN Fail(S, "RecursionError")
              ELSE IF f = 0 THEN [S EXCEPT !.ins[self].users = Append(@, instr)]
              ELSE S)

\* Instruction.add_used_vars(*variables)
RECURSIVE add_used_vars(_, _, _)
add_used_vars(S, self, variables) ==
    IF ~OK(S) \/ variables = <<>> THEN S
    ELSE LET var == Head(variables)
             S1 == With(Find(S.ins, S.ins[self].used, var), LAMBDA f :
                        IF f = -1 THEN Fail(S, "RecursionError")
                        ELSE IF f = 0 THEN [S EXCEPT !.ins[self].used = Append(@, var)]
                        ELSE S)
         IN  add_used_vars(add_user(S1, var, self), self, Tail(variables))

\* Instruction.remove_user
remove_user(S, self, instr) ==
    IF ~OK(S) THEN S
    ELSE With(Find(S.ins, S.ins[self].users, instr), LAMBDA f :
              IF f = -1 THEN Fail(S, "RecursionError")
              ELSE IF f = 0 THEN Fail(S, "AssertionError")
              ELSE [S EXCEPT !.ins[self].users = RemoveAt(@, f)])

\* Instruction.remove_used_vars(*variables)
RECURSIVE remove_used_vars(_, _, _)
remove_used_vars(S, self, variables) ==
    IF ~OK(S) \/ variables = <<>> THEN S
    ELSE LET var == Head(variables)
             S1 == IF ~IsAssign(S, var) THEN Fail(S, "AssertionError")
                   ELSE With(Find(S.ins, S.ins[self].used, var), LAMBDA f :
                             IF f = -1 THEN Fail(S, "RecursionError")
                             ELSE IF f = 0 THEN Fail(S, "AssertionError")
                             ELSE [S EXCEPT !.ins[self].used = RemoveAt(@, f)])
         IN  remove_used_vars(remove_user(S1, var, self), self, Tail(variables))

\* the loop of Instruction.replace_use: `for var in self.used_vars: if var is old:
\* self.remove_used_vars(var)`; the list iterator goes on by index over the list
\* as the body leaves it
RECURSIVE ReplaceUseLoop(_, _, _, _)
ReplaceUseLoop(S, self, old, idx) ==
    IF ~OK(S) \/ idx > Len(S.ins[self].used) THEN S
    ELSE IF S.ins[self].used[idx] = old
         THEN ReplaceUseLoop(remove_used_vars(S, self, <<old>>), self, old, idx + 1)
         ELSE ReplaceUseLoop(S, self, old, idx + 1)

\* Instruction.replace_use (the base bookkeeping)
BaseReplaceUse(S, self, old, new) ==
    IF ~OK(S) THEN S
    ELSE IF ~IsAssign(S, old) \/ ~IsAssign(S, new) THEN Fail(S, "AssertionError")
    ELSE IF old \notin Range(S.ins[self].used) THEN Fail(S, "AssertionError")
    ELSE add_used_vars(ReplaceUseLoop(S, self, old, 1), self, <<new>>)

\* Phi.replace_use after the base part: inputs.insert(inputs.index(old), new);
\* inputs.remove(old)
PhiSplice(S, self, old, new) ==
    IF ~OK(S) THEN S
    ELSE With(Find(S.ins, S.ins[self].ops, old), LAMBDA f :
              IF f = -1 THEN Fail(S, "RecursionError")
              ELSE IF f = 0 THEN Fail(S, "ValueError")
              ELSE With([S EXCEPT !.ins[self].ops = InsertAt(@, f, new)], LAMBDA S1 :
                   With(Find(S1.ins, S1.ins[self].ops, old), LAMBDA g :
                        IF g = -1 THEN Fail(S1, "RecursionError")
                        ELSE IF g = 0 THEN Fail(S1, "ValueError")
                        ELSE [S1 EXCEPT !.ins[self].ops = RemoveAt(@, g)])))

\* replace_use of the variants: Const and Ubr raise, BinOp and Call replace the
\* operand fields that are `old`, Cast, Id, Cbr and Return set their one field,
\* Phi splices its input list
replace_use(S, self, old, new) ==
    IF ~OK(S) THEN S
    ELSE IF S.ins[self].kind \in {"Const", "Ubr"} THEN Fail(S, "Exception")
    ELSE With(BaseReplaceUse(S, self, old, new), LAMBDA S1 :
              IF ~OK(S1) THEN S1
              ELSE IF S.ins[self].kind \in {"BinOp"} \cup CallKinds
                   THEN [S1 EXCEPT !.ins[self].ops =
                             [j \in DOMAIN @ |-> IF @[j] = old THEN new ELSE @[j]]]
              ELSE IF S.ins[self].kind = "Phi" THEN PhiSplice(S1, self, old, new)
              ELSE [S1 EXCEPT !.ins[self].ops = <<new>>])

RECURSIVE ReplaceUses(_, _, _, _)
ReplaceUses(S, uses, self, value) ==
    IF ~OK(S) \/ uses = <<>> THEN S
    ELSE ReplaceUses(replace_use(S, Head(uses), self, value), Tail(uses), self, value)

\* Instruction.replace_by
replace_by(S, self, value) ==
    IF ~OK(S) THEN S
    ELSE With(ReplaceUses(S, S.ins[self].users, self, value), LAMBDA S1 :
              IF ~OK(S1) THEN S1 ELSE remove_used_vars(S1, self, S1.ins[self].used))

\* ------------------------------------------------------------------- blocks
\* Block.add_phi_instr
add_phi_instr(S, b, instr) ==
    IF ~OK(S) THEN S
    ELSE IF S.ins[instr].kind # "Phi" THEN Fail(S, "AssertionError")
    ELSE [S EXCEPT !.ins[instr].block = b, !.blk[b].phis = Append(@, instr)]

\* Block.add_instr
add_instr(S, b, instr) ==
    IF ~OK(S) THEN S
    ELSE [S EXCEPT !.ins[instr].block = b, !.blk[b].instrs = Append(@, instr)]

\* Block.insert_instr; loc is a 0-based index within the list
insert_instr(S, b, instr, loc) ==
    IF ~OK(S) THEN S
    ELSE [S EXCEPT !.ins[instr].block = b,
                   !.blk[b].instrs = InsertAt(@, loc + 1, instr)]

\* list.remove(instr) on the instruction list of block b
ListRemove(S, b, instr) ==
    IF ~OK(S) THEN S
    ELSE With(Find(S.ins, S.blk[b].instrs, instr), LAMBDA g :
              IF g = -1 THEN Fail(S, "RecursionError")
              ELSE IF g = 0 THEN Fail(S, "ValueError")
              ELSE [S EXCEPT !.blk[b].instrs = RemoveAt(@, g)])

\* Block.replace_instr
replace_instr(S, b, old_instr, new_instr) ==
    IF ~OK(S) THEN S
    ELSE With(Find(S.ins, S.blk[b].instrs, old_instr), LAMBDA f :
              IF f = -1 THEN Fail(S, "RecursionError")
              ELSE IF f = 0 THEN Fail(S, "AssertionError")
              ELSE IF S.ins[new_instr].users # <<>> THEN Fail(S, "AssertionError")
              ELSE IF S.ins[new_instr].block # None THEN Fail(S, "AssertionError")
              ELSE ListRemove(replace_by([S EXCEPT !.ins[new_instr].block = b,
                                                   !.blk[b].instrs = InsertAt(@, f, new_instr)],
                                         old_instr, new_instr),
                              b, old_instr))

\* Block.remove_instr
remove_instr(S, b, instr) ==
    IF ~OK(S) THEN S
    ELSE With(Find(S.ins, S.blk[b].instrs, instr), LAMBDA f :
              IF f = -1 THEN Fail(S, "RecursionError")
              ELSE IF f = 0 THEN Fail(S, "AssertionError")
              ELSE IF S.ins[instr].users # <<>> THEN Fail(S, "AssertionError")
              ELSE ListRemove(remove_used_vars([S EXCEPT !.ins[instr].block = None],
                                               instr, S.ins[instr].used),
                              b, instr))

\* Block.add_pred and Block.add_succ call each other until both lists hold the
\* edge; blocks have distinct names, so Block.__eq__ in `not in` is identity
RECURSIVE add_pred(_, _, _)
RECURSIVE add_succ(_, _, _)

\* an add_succ that appends the successor and leaves the other block alone
add_succ_one_sided(S, self, block) == [S EXCEPT !.blk[self].succs = Append(@, block)]

add_pred(S, self, block) ==
    LET S1 == [S EXCEPT !.blk[self].preds = Append(@, block)]
    IN  IF self \notin Range(S1.blk[block].succs) THEN add_succ(S1, block, self)
        ELSE S1

add_succ(S, self, block) ==
    LET S1 == [S EXCEPT !.blk[self].succs = Append(@, block)]
    IN  IF self \notin Range(S1.blk[block].preds) THEN add_pred(S1, block, self)
        ELSE S1

\* ------------------------------------------------------------ constructors
\* A new object is the next free slot of the arena.
NextId(S) == Len(S.ins) + 1
Alloc(S, rec) == [S EXCEPT !.ins = Append(@, rec)]

\* Const(name, instr_type, value)
MkConst(S, name, ty, value) == Alloc(S, NewRec("Const", name, ty, value, <<>>))

\* Id(name, instr_type, value): asserts the operand's variant, registers the use
MkId(S, name, ty, value) ==
    IF ~OK(S) THEN S
    ELSE IF ~IsAssign(S, value) THEN Fail(S, "AssertionError")
    ELSE add_used_vars(Alloc(S, NewRec("Id", name, ty, "", <<value>>)),
                       NextId(S), <<value>>)

\* BinOp(name, instr_type, op, x, y)
MkBinOp(S, name, ty, op, x, y) ==
    IF ~OK(S) THEN S
    ELSE IF ~IsAssign(S, x) \/ ~IsAssign(S, y) THEN Fail(S, "AssertionError")
    ELSE add_used_vars(Alloc(S, NewRec("BinOp", name, ty, op, <<x, y>>)),
                       NextId(S), <<x, y>>)

\* Phi(name, instr_type)
MkPhi(S, name, ty) == Alloc(S, NewRec("Phi", name, ty, "", <<>>))

\* Phi.add_input
add_input(S, phi, value) ==
    IF ~OK(S) THEN S
    ELSE IF ~IsAssign(S, value) THEN Fail(S, "AssertionError")
    ELSE IF S.ins[value].block = None THEN Fail(S, "AssertionError")
    ELSE add_used_vars([S EXCEPT !.ins[phi].ops = Append(@, value)], phi, <<value>>)

\* Phi.remove_input
remove_input(S, phi, value) ==
    IF ~OK(S) THEN S
    ELSE IF ~IsAssign(S, value) THEN Fail(S, "AssertionError")
    ELSE With(Find(S.ins, S.ins[phi].ops, value), LAMBDA f :
              IF f = -1 THEN Fail(S, "RecursionError")
              ELSE IF f = 0 THEN Fail(S, "AssertionError")
              ELSE remove_used_vars([S EXCEPT !.ins[phi].ops = RemoveAt(@, f)],
                                    phi, <<value>>))

\* Cast(name, instr_type, value)
MkCast(S, name, ty, value) ==
    IF ~OK(S) THEN S
    ELSE IF ~IsAssign(S, value) THEN Fail(S, "AssertionError")
    ELSE add_used_vars(Alloc(S, NewRec("Cast", name, ty, "", <<value>>)),
                       NextId(S), <<value>>)

\* the instructions of the list are all assignments
AllAssign(S, params) == \A k \in DOMAIN params : IsAssign(S, params[k])

\* FunctionCall(name, instr_type, callee, params): AssignmentInstruction.__init__
\* calls super().__init__() without arguments, which for a FunctionCall is
\* Call.__init__(callee, params); no FunctionCall is ever built
MkFunctionCall(S, name, ty, callee, params) == Fail(S, "TypeError")

\* ProcedureCall(callee, params)
MkProcedureCall(S, callee, params) ==
    IF ~OK(S) THEN S
    ELSE IF ~AllAssign(S, params) THEN Fail(S, "AssertionError")
    ELSE add_used_vars(Alloc(S, NewRec("ProcedureCall", "", "", callee, params)),
                       NextId(S), params)

\* Return(instr_type, value)
MkReturn(S, ty, value) ==
    IF ~OK(S) THEN S
    ELSE IF ~IsAssign(S, value) THEN Fail(S, "AssertionError")
    ELSE add_used_vars(Alloc(S, NewRec("Return", "", ty, "", <<value>>)),
                       NextId(S), <<value>>)

\* Cbr(cond, true_block, false_block); the payload is the pair of targets
MkCbr(S, cond, true_block, false_block) ==
    IF ~OK(S) THEN S
    ELSE IF ~IsAssign(S, cond) THEN Fail(S, "AssertionError")
    ELSE add_used_vars(Alloc(S, NewRec("Cbr", "", "", <<true_block, false_block>>,
                                       <<cond>>)),
                       NextId(S), <<cond>>)

\* Ubr(to_block)
MkUbr(S, to_block) == Alloc(S, NewRec("Ubr", "", "", to_block, <<>>))

\* Call.add_param
add_param(S, self, param) ==
    IF ~OK(S) THEN S
    ELSE IF ~IsAssign(S, param) THEN Fail(S, "AssertionError")
    ELSE add_used_vars([S EXCEPT !.ins[self].ops = Append(@, param)], self, <<param>>)

\* Call.remove_param
remove_param(S, self, param) ==
    IF ~OK(S) THEN S
    ELSE IF ~IsAssign(S, param) THEN Fail(S, "AssertionError")
    ELSE With(Find(S.ins, S.ins[self].ops, param), LAMBDA f :
              IF f = -1 THEN Fail(S, "RecursionError")
              ELSE IF f = 0 THEN Fail(S, "AssertionError")
              ELSE remove_used_vars([S EXCEPT !.ins[self].ops = RemoveAt(@, f)],
                                    self, <<param>>))

\* set_operand_at of the variants; idx counts from 0 over the operands in the
\* order of get_operand_at (the payload first for BinOp and Call), new is an
\* instruction where the operand is an SSA value and a payload otherwise
set_operand_at(S, self, idx, new) ==
    IF ~OK(S) THEN S
    ELSE LET k == S.ins[self].kind
             o == S.ins[self].ops
         IN  IF k \in {"Const", "Ubr"}
             THEN IF idx # 0 THEN Fail(S, "AssertionError")
                  ELSE [S EXCEPT !.ins[self].val = new]
             ELSE IF k = "BinOp"
             THEN IF idx \notin 0..2 THEN Fail(S, "AssertionError")
                  ELSE IF idx = 0 THEN [S EXCEPT !.ins[self].val = new]
                  ELSE replace_use(S, self, o[idx], new)
             ELSE IF k \in CallKinds
             THEN IF idx \notin 0..Len(o) THEN Fail(S, "AssertionError")
                  ELSE IF idx = 0 THEN [S EXCEPT !.ins[self].val = new]
                  ELSE replace_use(S, self, o[idx], new)
             ELSE IF k = "Phi"
             THEN IF idx \notin 0..(Len(o) - 2) THEN Fail(S, "AssertionError")
                  ELSE replace_use(S, self, o[idx + 1], new)
             ELSE IF k = "Cbr"
             THEN IF idx \notin 0..2 THEN Fail(S, "AssertionError")
                  ELSE IF idx = 0 THEN replace_use(S, self, o[1], new)
                  ELSE [S EXCEPT !.ins[self].val[idx] = new]
             ELSE \* Cast, Id, Return
                  IF idx # 0 THEN Fail(S, "AssertionError")
                  ELSE replace_use(S, self, o[1], new)

\* -------------------------------------------------------------- SSA builder
MaxDepth == 8      \* nesting of get_reaching_def calls the interpreter allows

SelectSeq2(s, x) == SelectSeq(s, LAMBDA e : e # x)

\* a new_variable that numbers all names with one shared counter
new_variable_shared(S, instr, b) ==
    IF ~OK(S) THEN S
    ELSE IF ~IsAssign(S, instr) THEN Fail(S, "AssertionError")
    ELSE LET n == S.ins[instr].name
             top == CHOOSE c \in {S.vars[m].count : m \in Names} :
                        \A m \in Names : S.vars[m].count <= c
         IN  [S EXCEPT !.vars = [m \in Names |->
                           IF m = n
                           THEN [count |-> top + 1,
                                 cur |-> [c \in Blocks |->
                                            IF c = b THEN instr ELSE S.vars[n].cur[c]]]
                           ELSE IF S.vars[m].count = -1 THEN S.vars[m]
                           ELSE [S.vars[m] EXCEPT !.count = top + 1]],
                        !.ins[instr].ssa = top + 1,
                        !.ret = instr]

\* SSA.new_variable
new_variable(S, instr, b) ==
    IF ~OK(S) THEN S
    ELSE IF ~IsAssign(S, instr) THEN Fail(S, "AssertionError")
    ELSE LET n == S.ins[instr].name
         IN  IF S.vars[n].count = -1
             THEN [S EXCEPT !.vars[n] = [count |-> 0,
                                        cur |-> [c \in Blocks |->
                                                   IF c = b THEN instr ELSE -1]],
                            !.ins[instr].ssa = 0,
                            !.ret = instr]
             ELSE [S EXCEPT !.vars[n].count = @ + 1,
                            !.ins[instr].ssa = S.vars[n].count + 1,
                            !.vars[n].cur[b] = instr,
                            !.ret = instr]

\* the scan of remove_trivial_phi over phi.inputs from index k on: "phi" when
\* the phi combines two values, "same" when it is trivial (with the one value,
\* None when there is none), "E" when a comparison raised
RECURSIVE ScanInputs(_, _, _, _)
ScanInputs(S, phi, k, same) ==
    IF k > Len(S.ins[phi].ops) THEN [res |-> "same", same |-> same]
    ELSE With(IF same = None THEN "F" ELSE PyEq(S.ins, S.ins[phi].ops[k], same),
              LAMBDA r1 :
         With(IF r1 = "F" THEN PyEq(S.ins, S.ins[phi].ops[k], phi) ELSE r1,
              LAMBDA r2 :
              IF r2 = "E" THEN [res |-> "E", same |-> same]
              ELSE IF r2 = "T" THEN ScanInputs(S, phi, k + 1, same)
              ELSE IF same # None THEN [res |-> "phi", same |-> same]
              ELSE ScanInputs(S, phi, k + 1, S.ins[phi].ops[k])))

\* current_def entries that are `phi` become `same`
RedirectCurrentDef(S, phi, same) ==
    IF ~OK(S) THEN S
    ELSE [S EXCEPT !.vars[S.ins[phi].name].cur =
              [c \in Blocks |-> IF @[c] = phi THEN same ELSE @[c]]]

\* the call returns v
Returning(S, v) == IF OK(S) THEN [S EXCEPT !.ret = v] ELSE S

RECURSIVE remove_trivial_phi(_, _)
RECURSIVE RemoveTrivialUsers(_, _)

\* SSA.remove_trivial_phi
remove_trivial_phi(S, phi) ==
    IF ~OK(S) THEN S
    ELSE With(ScanInputs(S, phi, 1, None), LAMBDA sc :
              IF sc.res = "E" THEN Fail(S, "RecursionError")
              ELSE IF sc.res = "phi" THEN [S EXCEPT !.ret = phi]
              ELSE With(Find(S.ins, S.blk[S.ins[phi].block].phis, phi), LAMBDA f :
                   IF f = -1 THEN Fail(S, "RecursionError")
                   ELSE IF f = 0 THEN Fail(S, "ValueError")
                   ELSE Returning(
                            RemoveTrivialUsers(
                                RedirectCurrentDef(
                                    replace_by([S EXCEPT !.blk[S.ins[phi].block].phis =
                                                    RemoveAt(@, f)],
                                               phi, sc.same),
                                    phi, sc.same),
                                SelectSeq2(S.ins[phi].users, phi)),
                            sc.same)))

\* `for use in users: if isinstance(use, ir.Phi): self.remove_trivial_phi(use)`
RemoveTrivialUsers(S, users) ==
    IF ~OK(S) \/ users = <<>> THEN S
    ELSE IF S.ins[Head(users)].kind = "Phi"
         THEN RemoveTrivialUsers(remove_trivial_phi(S, Head(users)), Tail(users))
         ELSE RemoveTrivialUsers(S, Tail(users))

\* incomplete_phis[b][n] = phi, with the insertion order of a dict
SetIncomplete(S, b, n, phi) ==
    LET e == S.inc[b]
        hit == {i \in DOMAIN e : e[i][1] = n}
    IN  IF hit = {} THEN [S EXCEPT !.inc[b] = Append(@, <<n, phi>>)]
        ELSE [S EXCEPT !.inc[b] = [i \in DOMAIN e |->
                                     IF i \in hit THEN <<n, phi>> ELSE e[i]]]

RECURSIVE get_reaching_def(_, _, _, _)
RECURSIVE get_reaching_def_recursive(_, _, _, _)
RECURSIVE add_phi_operands(_, _, _, _)
RECURSIVE AddPhiInputs(_, _, _, _, _)

\* a lookup that does not consult the block's current definition
get_reaching_def_no_local(S, variable, b, d) ==
    IF ~OK(S) THEN S
    ELSE IF d = 0 THEN Fail(S, "RecursionError")
    ELSE IF S.vars[variable].count = -1 THEN Fail(S, "KeyError")
    ELSE get_reaching_def_recursive(S, variable, b, d)

\* SSA.get_reaching_def; d counts the nested calls still allowed
get_reaching_def(S, variable, b, d) ==
    IF ~OK(S) THEN S
    ELSE IF d = 0 THEN Fail(S, "RecursionError")
    ELSE IF S.vars[variable].count = -1 THEN Fail(S, "KeyError")
    ELSE IF S.vars[variable].cur[b] # -1
         THEN [S EXCEPT !.ret = S.vars[variable].cur[b]]
    ELSE get_reaching_def_recursive(S, variable, b, d)

\* a lookup that places a phi in every sealed block, also with one predecessor
get_reaching_def_recursive_phi(S, variable, b, d) ==
    IF ~OK(S) THEN S
    ELSE LET phi == NextId(S) IN
         IF b \notin S.sealed
         THEN LET S1 == new_variable(add_phi_instr(MkPhi(S, variable, "VOID"), b, phi),
                                     phi, b)
                  S2 == SetIncomplete(S1, b, variable, phi)
              IN  [S2 EXCEPT !.ret = phi]
         ELSE LET S0 == [MkPhi(S, variable, "VOID") EXCEPT
                              !.ins[phi].ssa = S.vars[variable].count]
                  S1 == new_variable(add_phi_instr(S0, b, phi), phi, b)
              IN  [AddPhiInputs(S1, variable, phi, 1, d) EXCEPT !.ret = phi]

\* the operandless phi that get_reaching_def_recursive puts into a sealed block
\* with several predecessors, registered as the definition of the variable
PlacedPhi(S, variable, b) ==
    new_variable(add_phi_instr([MkPhi(S, variable, "VOID") EXCEPT
                                    !.ins[NextId(S)].ssa = S.vars[variable].count],
                               b, NextId(S)),
                 NextId(S), b)

\* SSA.get_reaching_def_recursive
get_reaching_def_recursive(S, variable, b, d) ==
    IF ~OK(S) THEN S
    ELSE IF S.vars[variable].count = -1 /\ b \in S.sealed /\ Len(S.blk[b].preds) # 1
         THEN Fail(S, "KeyError")
    ELSE LET phi == NextId(S) IN
         IF b \notin S.sealed
         THEN LET S1 == new_variable(add_phi_instr(MkPhi(S, variable, "VOID"), b, phi),
                                     phi, b)
                  S2 == SetIncomplete(S1, b, variable, phi)
              IN  [S2 EXCEPT !.ret = phi]
         ELSE IF Len(S.blk[b].preds) = 1
         THEN get_reaching_def(S, variable, S.blk[b].preds[1], d - 1)
         ELSE add_phi_operands(PlacedPhi(S, variable, b), variable, phi, d)

\* phi.add_input(r) for the value r that the call before returned
AddReturned(S, phi) == add_input(S, phi, S.ret)

\* the loop of add_phi_operands over phi.block.preds from index k on
AddPhiInputs(S, variable, phi, k, d) ==
    IF ~OK(S) \/ k > Len(S.blk[S.ins[phi].block].preds) THEN S
    ELSE AddPhiInputs(AddReturned(get_reaching_def(S, variable,
                                                   S.blk[S.ins[phi].block].preds[k],
                                                   d - 1),
                                  phi),
                      variable, phi, k + 1, d)

\* SSA.add_phi_operands
add_phi_operands(S, variable, phi, d) ==
    remove_trivial_phi(AddPhiInputs(S, variable, phi, 1, d), phi)

\* a seal that leaves the incomplete phis of the block as they are
SealLoopUnfilled(S, b, k) == S

\* the loop of add_sealed_block over incomplete_phis[block.name]
RECURSIVE SealLoop(_, _, _)
SealLoop(S, b, k) ==
    IF ~OK(S) \/ k > Len(S.inc[b]) THEN S
    ELSE SealLoop(add_phi_operands(S, S.inc[b][k][1], S.inc[b][k][2], MaxDepth), b, k + 1)

\* SSA.add_sealed_block
add_sealed_block(S, b) ==
    With(SealLoop(S, b, 1), LAMBDA S1 :
         IF OK(S1) THEN [S1 EXCEPT !.sealed = @ \cup {b}, !.ret = None] ELSE S1)

\* ------------------------------------------------------------ operand access
\* An operand is an SSA value (kind "instr", num the instruction), a string
\* (kind "str": a constant's value, a callee), an Op (kind "op", text its name)
\* or a block (kind "block", num the block); a value number of the LVN pass is
\* kind "int".
Opnd(kind, num, text) == [kind |-> kind, num |-> num, text |-> text]

\* the ops of ir.Op that the model uses, with str(op)
OpStr == [ADD |-> "add", SUB |-> "sub", MUL |-> "mul", DIV |-> "div", MOD |-> "mod",
          LSH |-> "lsh", RSH |-> "rsh", LT |-> "lt", GT |-> "gt", LE |-> "le",
          GE |-> "ge", EQ |-> "eq", NQ |-> "nq"]

\* Op.is_commutative
is_commutative(op) == op \in {"ADD", "MUL", "EQ"}

\* operand_num of the variants
operand_num(S, self) ==
    IF S.ins[self].kind \in {"BinOp", "Cbr"} THEN 3
    ELSE IF S.ins[self].kind \in CallKinds THEN Len(S.ins[self].ops) + 1
    ELSE IF S.ins[self].kind = "Phi" THEN Len(S.ins[self].ops)
    ELSE 1

\* get_operand_at of the variants: err is "ok" and val the operand, or err is
\* the exception raised
get_operand_at(S, self, idx) ==
    LET k == S.ins[self].kind
        o == S.ins[self].ops
        Got(v) == [err |-> "ok", val |-> v]
        Bad == [err |-> "AssertionError", val |-> Opnd("str", -1, "")]
    IN  IF k = "Const"
        THEN IF idx # 0 THEN Bad ELSE Got(Opnd("str", -1, S.ins[self].val))
        ELSE IF k = "BinOp"
        THEN IF idx \notin 0..2 THEN Bad
             ELSE IF idx = 0 THEN Got(Opnd("op", -1, S.ins[self].val))
             ELSE Got(Opnd("instr", o[idx], ""))
        ELSE IF k \in CallKinds
        THEN IF idx \notin 0..Len(o) THEN Bad
             ELSE IF idx = 0 THEN Got(Opnd("str", -1, S.ins[self].val))
             ELSE Got(Opnd("instr", o[idx], ""))
        ELSE IF k = "Phi"
        THEN IF idx \notin 0..(Len(o) - 2) THEN Bad
             ELSE Got(Opnd("instr", o[idx + 1], ""))
        ELSE IF k = "Ubr"
        THEN IF idx # 0 THEN Bad ELSE Got(Opnd("block", S.ins[self].val, ""))
        ELSE IF k = "Cbr"
        THEN IF idx \notin 0..2 THEN Bad
             ELSE IF idx = 0 THEN Got(Opnd("instr", o[1], ""))
             ELSE Got(Opnd("block", S.ins[self].val[idx], ""))
        ELSE \* Cast, Id, Return
             IF idx # 0 THEN Bad ELSE Got(Opnd("instr", o[1], ""))

\* opcode_name of the assignment variants
opcode_name(S, self) ==
    LET k == S.ins[self].kind
    IN  IF k = "Const" THEN "const"
        ELSE IF k = "BinOp" THEN OpStr[S.ins[self].val]
        ELSE IF k = "Cast" THEN "cast"
        ELSE IF k = "Id" THEN "id"
        ELSE IF k = "FunctionCall" THEN "fcall"
        ELSE IF k = "ProcedureCall" THEN "pcall"
        ELSE "phi"

\* ---------------------------------------------------------- constant folding
\* Type.bits (None for STRING and VOID) and Type.is_signed, as the enum has them
TypeBits == [I1 |-> 1, I8 |-> 8, I16 |-> 16, I32 |-> 32, I64 |-> 64, I128 |-> 128,
             I256 |-> 256, U8 |-> 8, U16 |-> 16, U32 |-> 32, U64 |-> 64,
             U128 |-> 128, U256 |-> 256, F32 |-> 32, F64 |-> 64,
             STRING |-> None, VOID |-> None]

is_signed(ty) == ty \in {"U8", "U16", "U32", "U64", "U128", "U256"}

\* the keys of the dict `ops` of lvn.py
FoldOps == {"ADD", "SUB", "MUL", "MOD", "LSH", "RSH"}

\* the integers whose decimal strings the model reads and writes
Literals == -300..600

\* str(n)
Decimal == [n \in Literals |-> ToString(n)]

\* int(s) for a decimal string: ok is FALSE where int raises ValueError
ParseInt(s) ==
    IF \E n \in Literals : Decimal[n] = s
    THEN [ok |-> TRUE, val |-> CHOOSE n \in Literals : Decimal[n] = s]
    ELSE [ok |-> FALSE, val |-> 0]

RECURSIVE Pow2(_)
Pow2(n) == IF n = 0 THEN 1 ELSE 2 * Pow2(n - 1)

\* Python's x % y for y # 0: the result has the sign of y
PyMod(x, y) == IF y > 0 THEN x % y ELSE -((-x) % (-y))

\* the functions of the dict `ops` before wrapping: err is "ok" and val the
\* result, or err is the exception the operator raises
Operate(op, x, y) ==
    IF op = "ADD" THEN [err |-> "ok", val |-> x + y]
    ELSE IF op = "SUB" THEN [err |-> "ok", val |-> x - y]
    ELSE IF op = "MUL" THEN [err |-> "ok", val |-> x * y]
    ELSE IF op = "MOD"
         THEN IF y = 0 THEN [err |-> "ZeroDivisionError", val |-> 0]
              ELSE [err |-> "ok", val |-> PyMod(x, y)]
    ELSE IF y < 0 THEN [err |-> "ValueError", val |-> 0]
    ELSE IF op = "LSH" THEN [err |-> "ok", val |-> x * Pow2(y)]
    ELSE [err |-> "ok", val |-> x \div Pow2(y)]

\* wrap(value, bits, signed): value.bit_length() == bits, for a value below
\* 2^bits, says that the top bit is set
wrap(value, bits, signed) ==
    LET v == value % Pow2(bits)
    IN  IF signed /\ v >= Pow2(bits - 1) THEN v - Pow2(bits) ELSE v

\* the instruction is a BinOp that fold_instr folds
Foldable(S, instr) ==
    /\ S.ins[instr].kind = "BinOp"
    /\ S.ins[instr].val \in FoldOps
    /\ \A k \in 1..2 : /\ S.ins[S.ins[instr].ops[k]].kind = "Const"
                       /\ TypeBits[S.ins[S.ins[instr].ops[k]].ty] # None

\* the Const that fold_instr builds from the integer folded
FoldedConst(S, instr, folded) ==
    [Alloc(S, [NewRec("Const", S.ins[instr].name, S.ins[instr].ty,
                      ToString(folded), <<>>)
               EXCEPT !.ssa = S.ins[instr].ssa])
     EXCEPT !.ret = NextId(S)]

\* the call of ops[instr.op] on the integers read from the operands x and y:
\* the operator raises before wrap does, and wrap raises for bits None
FoldInts(S, instr, x, y, r) ==
    IF ~x.ok \/ ~y.ok THEN Fail(S, "ValueError")
    ELSE IF r.err # "ok" THEN Fail(S, r.err)
    ELSE IF TypeBits[S.ins[instr].ty] = None THEN Fail(S, "TypeError")
    ELSE FoldedConst(S, instr, wrap(r.val, TypeBits[S.ins[instr].ty],
                                    is_signed(S.ins[instr].ty)))

\* the operator of the dict applied to what int() read
OperateOn(op, x, y) == Operate(op, x.val, y.val)

\* fold_instr: ret is the new Const, or None where nothing folds
fold_instr(S, instr) ==
    IF ~OK(S) THEN S
    ELSE IF ~Foldable(S, instr) THEN [S EXCEPT !.ret = None]
    ELSE With(ParseInt(S.ins[S.ins[instr].ops[1]].val), LAMBDA x :
         With(ParseInt(S.ins[S.ins[instr].ops[2]].val), LAMBDA y :
              FoldInts(S, instr, x, y, OperateOn(S.ins[instr].val, x, y))))

\* ------------------------------------------------------ local value numbering
\* Python dicts are functions; Put is d[k] = v
EmptyDict == [k \in {} |-> 0]
Put(d, k, v) == [y \in DOMAIN d \cup {k} |-> IF y = k THEN v ELSE d[y]]

\* Python's bool as the Value keeps it, and the truth value of what
\* Value.__init__ receives as is_commutative (a bool, or a Type, which is an
\* Enum member and always true)
PyBool(b) == IF b THEN "True" ELSE "False"
Truthy(v) == v # "False"

\* the lambda as_name of run_pass
as_name(S, x) == <<S.ins[x].name, S.ins[x].ssa>>

\* sorted(params, key=str): the value numbers of a block stay below 10, so
\* their strings are single digits in numeric order, and they come before the
\* one word (an op, a callee) that a list of operands holds
StrKey(p) == IF p.kind = "int" THEN p.num ELSE 10

InsertByStr(t, e) ==
    InsertAt(t, Cardinality({i \in DOMAIN t : StrKey(t[i]) <= StrKey(e)}) + 1, e)

RECURSIVE SortedByStr(_)
SortedByStr(s) ==
    IF Len(s) <= 1 THEN s
    ELSE InsertByStr(SortedByStr(SubSeq(s, 1, Len(s) - 1)), s[Len(s)])

\* Value.__init__(opcode_name, is_commutative, instr_type, params); __eq__ and
\* __hash__ read the three fields kept
Value(opcode, is_comm, instr_type, params) ==
    [opcode_name |-> opcode, instr_type |-> instr_type,
     params |-> IF Truthy(is_comm) THEN SortedByStr(params) ELSE params]

\* the frame of LVN.run_pass: the program state together with the locals
\* numberings, value_table and name, the field num_count of the pass, the
\* list of Value parameters under construction and the local number
Frame(S, num_count) ==
    [ins |-> S.ins, blk |-> S.blk, vars |-> S.vars, inc |-> S.inc,
     sealed |-> S.sealed, err |-> S.err, ret |-> S.ret,
     numberings |-> EmptyDict, value_table |-> EmptyDict, name |-> EmptyDict,
     num_count |-> num_count, params |-> <<>>, number |-> None]

\* one element of the list comprehension: the value number of an operand that
\* is an assignment and no call, the operand itself otherwise; g is what
\* get_operand_at gave
AddValueParam(F, g) ==
    IF g.err # "ok" THEN Fail(F, g.err)
    ELSE IF g.val.kind = "instr" /\ IsAssign(F, g.val.num)
            /\ F.ins[g.val.num].kind \notin CallKinds
    THEN IF as_name(F, g.val.num) \in DOMAIN F.numberings
         THEN [F EXCEPT !.params =
                   Append(@, Opnd("int", F.numberings[as_name(F, g.val.num)], ""))]
         ELSE Fail(F, "KeyError")
    ELSE [F EXCEPT !.params = Append(@, g.val)]

\* the list comprehension over the generator instr.operands, from index idx
RECURSIVE ValueParams(_, _, _, _)
ValueParams(F, instr, idx, n) ==
    IF ~OK(F) \/ idx >= n THEN F
    ELSE ValueParams(AddValueParam(F, get_operand_at(F, instr, idx)), instr, idx + 1, n)

\* new_instr.ssa_id = v
SetSsa(S, i, v) == IF OK(S) THEN [S EXCEPT !.ins[i].ssa = v] ELSE S

\* lookup hit: an Id copying name[number] takes the place of instr
LvnHit(F, b, instr) ==
    replace_instr(SetSsa(MkId(F, F.ins[instr].name, F.ins[instr].ty, F.name[F.number]),
                         NextId(F), F.ins[instr].ssa),
                  b, instr, NextId(F))

\* one step of the loop over enumerate(instr.operands); g is the operand read
RedirectOperand(F, instr, i, g) ==
    IF g.err # "ok" THEN Fail(F, g.err)
    ELSE IF g.val.kind = "instr" /\ IsAssign(F, g.val.num)
    THEN IF as_name(F, g.val.num) \in DOMAIN F.numberings
         THEN set_operand_at(F, instr, i, F.name[F.numberings[as_name(F, g.val.num)]])
         ELSE Fail(F, "KeyError")
    ELSE F

RECURSIVE RedirectOperands(_, _, _, _)
RedirectOperands(F, instr, i, n) ==
    IF ~OK(F) \/ i >= n THEN F
    ELSE RedirectOperands(RedirectOperand(F, instr, i, get_operand_at(F, instr, i)),
                          instr, i + 1, n)

\* number = self._fresh_num(); value_table[value] = number; name[number] = instr
Register(F, value, instr) ==
    [F EXCEPT !.num_count = @ + 1,
              !.number = F.num_count + 1,
              !.value_table = Put(@, value, F.num_count + 1),
              !.name = Put(@, F.num_count + 1, instr)]

\* lookup miss: the instruction is registered and its operands redirected
LvnMiss(F, value, instr) ==
    RedirectOperands(Register(F, value, instr), instr, 0, operand_num(F, instr))

\* numberings[as_name(instr)] = number
Numbered(F, instr) ==
    IF ~OK(F) THEN F
    ELSE [F EXCEPT !.numberings = Put(@, as_name(F, instr), F.number)]

\* value.lookup_in(value_table) and `if number:`, which a number 0 fails
LvnNumber(F, b, instr, value) ==
    Numbered(IF value \in DOMAIN F.value_table /\ F.value_table[value] # 0
             THEN LvnHit([F EXCEPT !.number = F.value_table[value]], b, instr)
             ELSE LvnMiss(F, value, instr),
             instr)

\* the Value of instr from the parameters collected; hashing it raises for a
\* parameter that is an instruction (a call), which has no __hash__
LvnLookup(F, b, instr) ==
    IF ~OK(F) THEN F
    ELSE IF \E k \in DOMAIN F.params : F.params[k].kind = "instr"
    THEN Fail(F, "TypeError")
    ELSE LvnNumber(F, b, instr,
                   Value(opcode_name(F, instr), F.ins[instr].ty,
                         PyBool(F.ins[instr].kind = "BinOp"
                                /\ is_commutative(F.ins[instr].val)),
                         F.params))

LvnValue(F, b, instr) ==
    IF ~OK(F) THEN F
    ELSE LvnLookup(ValueParams([F EXCEPT !.params = <<>>], instr, 0,
                               operand_num(F, instr)),
                   b, instr)

\* the body of the loop after fold_instr returned F.ret
LvnFolded(F, b, instr) ==
    IF ~OK(F) THEN F
    ELSE IF F.ret = None THEN LvnValue(F, b, instr)
    ELSE IF F.ins[instr].block = None THEN Fail(F, "AttributeError")
    ELSE LvnValue(replace_instr(F, F.ins[instr].block, instr, F.ret), b, F.ret)

\* the body of the loop of run_pass for one instruction
LvnInstr(F, b, instr) ==
    IF ~OK(F) \/ ~IsAssign(F, instr) THEN F
    ELSE LvnFolded(fold_instr(F, instr), b, instr)

\* `for instr in block.instrs`: the list is read by index while it changes
RECURSIVE LvnLoop(_, _, _)
LvnLoop(F, b, k) ==
    IF ~OK(F) \/ k > Len(F.blk[b].instrs) THEN F
    ELSE LvnLoop(LvnInstr(F, b, F.blk[b].instrs[k]), b, k + 1)

\* ------------------------------------------------- dead instruction removal
\* a filter that takes every instruction without users for dead
dead_any(S, i) == S.ins[i].users = <<>>

\* the filter of the generators of DIA.run_pass
Dead(S, i) ==
    IsAssign(S, i) /\ S.ins[i].kind \notin CallKinds /\ S.ins[i].users = <<>>

\* instr.block.remove_instr(instr)
RemoveFromOwnBlock(S, instr) ==
    IF ~OK(S) THEN S
    ELSE IF S.ins[instr].block = None THEN Fail(S, "AttributeError")
    ELSE remove_instr(S, S.ins[instr].block, instr)

\* remove_dead_instrs over the generator that reads the list used_vars of
\* instr, from index k, after instr was removed
RECURSIVE RemoveDeadUsed(_, _, _)
RemoveDeadUsed(S, instr, k) ==
    IF ~OK(S) \/ k > Len(S.ins[instr].used) THEN S
    ELSE IF Dead(S, S.ins[instr].used[k])
    THEN RemoveDeadUsed(RemoveDeadUsed(RemoveFromOwnBlock(S, S.ins[instr].used[k]),
                                       S.ins[instr].used[k], 1),
                        instr, k + 1)
    ELSE RemoveDeadUsed(S, instr, k + 1)

\* remove_dead_instrs over the generator that reads block.instrs, from index k
RECURSIVE RemoveDeadInstrs(_, _, _)
RemoveDeadInstrs(S, b, k) ==
    IF ~OK(S) \/ k > Len(S.blk[b].instrs) THEN S
    ELSE IF Dead(S, S.blk[b].instrs[k])
    THEN RemoveDeadInstrs(RemoveDeadUsed(RemoveFromOwnBlock(S, S.blk[b].instrs[k]),
                                         S.blk[b].instrs[k], 1),
                          b, k + 1)
    ELSE RemoveDeadInstrs(S, b, k + 1)

\* DIA.run_pass
DIA_run_pass(S, b) == RemoveDeadInstrs(S, b, 1)

\* LVN.run_pass of a pass whose field num_count is the one given
LVN_run_pass(S, num_count, b) == DIA_run_pass(LvnLoop(Frame(S, num_count), b, 1), b)

\* ------------------------------------------------------------------- state
VARIABLES ins, blk, variables, incomplete_phis, sealed_blocks, err, ret, cfg, pc, last,
          edits, manager

vars == <<ins, blk, variables, incomplete_phis, sealed_blocks, err, ret, cfg, pc, last,
          edits, manager>>

\* the program state as one record, and the step that installs a record
Cur == [ins |-> ins, blk |-> blk, vars |-> variables, inc |-> incomplete_phis,
        sealed |-> sealed_blocks, err |-> err, ret |-> ret]

\* ret keeps what a get_reaching_def call of the front-end returned, until the
\* front-end's next call
Install(S, keep) ==
    /\ ins' = S.ins
    /\ blk' = S.blk
    /\ variables' = S.vars
    /\ incomplete_phis' = S.inc
    /\ sealed_blocks' = S.sealed
    /\ err' = S.err
    /\ ret' = IF keep /\ OK(S) THEN S.ret ELSE None
    /\ manager' = manager

\* PassManager(): the four lists of passes are empty; registered lists the
\* passes for which register_pass has returned and ran the calls of passes
\* that run_passes has made, in their order
EmptyManager ==
    [module_passes |-> <<>>, function_passes |-> <<>>, basic_block_passes |-> <<>>,
     instruction_passes |-> <<>>, registered |-> <<>>, ran |-> <<>>]

\* Block(name), SSA(), PassManager(): empty lists, no variable registered
InitProgram ==
    /\ ins = <<>>
    /\ blk = [b \in Blocks |-> [instrs |-> <<>>, phis |-> <<>>,
                                preds |-> <<>>, succs |-> <<>>]]
    /\ variables = [n \in Names |-> [count |-> -1, cur |-> [b \in Blocks |-> -1]]]
    /\ incomplete_phis = [b \in Blocks |-> <<>>]
    /\ sealed_blocks = {}
    /\ err = "ok"
    /\ ret = None
    /\ manager = EmptyManager

\* ------------------------------------------- the front-end using the builder
\* The front-end builds one subroutine whose control-flow graph is cfg, a set
\* of edges <<from, to>> over Blocks with entry block Entry.  As the tests of
\* tests/test_ssa_constr.py do, it emits the blocks one after the other (pc is
\* the block it is emitting), adds an edge when it has reached both ends of it,
\* and follows the builder's contract: a block is sealed once, after all its
\* predecessor edges were added, and a variable is read only where it is
\* defined on every path from the entry block.
Entry == 1

\* the graphs tried: a chain, an if without else, a loop of one block, a loop of
\* two blocks, a one-block loop that is left on two ways, and two blocks that
\* are entered from the entry block and jump to each other
CFGs == { {<<1, 2>>, <<2, 3>>},
          {<<1, 2>>, <<1, 3>>, <<2, 3>>},
          {<<1, 2>>, <<2, 2>>, <<2, 3>>},
          {<<1, 2>>, <<2, 3>>, <<3, 2>>},
          {<<1, 2>>, <<1, 3>>, <<2, 2>>, <<2, 3>>},
          {<<1, 2>>, <<1, 3>>, <<2, 3>>, <<3, 2>>} }

CfgPreds(b) == {e[1] : e \in {e \in cfg : e[2] = b}}

\* the front-end has emitted a definition of n into b
HasDef(n, b) == \E k \in DOMAIN blk[b].instrs : ins[blk[b].instrs[k]].name = n

\* the blocks at whose end n is defined on every path from the entry block
\* (greatest fixed point of the forward must-analysis)
RECURSIVE DefinedOut(_, _)
DefinedOut(n, X) ==
    LET Y == {b \in X : HasDef(n, b)
                        \/ (b # Entry /\ CfgPreds(b) # {} /\ CfgPreds(b) \subseteq X)}
    IN  IF Y = X THEN X ELSE DefinedOut(n, Y)

MustDef(n, b) == b \in DefinedOut(n, Blocks)

Running == err = "ok"
Fits(S) == Len(S.ins) <= MaxInstr

\* a call of the front-end that leaves the program as S
Step(S, keep) == Fits(S) /\ Install(S, keep)
Max(a, b) == IF a >= b THEN a ELSE b

\* b.add_instr(builder.new_variable(ir.Id(m, I32, r), b)) for the value r that
\* the call before returned
DefineId(S, m, b) ==
    add_instr(new_variable(MkId(S, m, "I32", S.ret), NextId(S), b), b, NextId(S))

\* the front-end goes on to the next block
NextBlock ==
    /\ Running
    /\ pc + 1 \in Blocks
    /\ pc' = pc + 1
    /\ ret' = None
    /\ last' = [op |-> "other", n |-> ""]
    /\ UNCHANGED <<ins, blk, variables, incomplete_phis, sealed_blocks, err, cfg, edits,
                   manager>>

\* b.add_pred(a) for an edge of the graph that is not yet there
AddPred(a, b) ==
    /\ Running
    /\ <<a, b>> \in cfg
    /\ Max(a, b) = pc
    /\ a \notin Range(blk[b].preds)
    /\ b \notin sealed_blocks
    /\ Install(add_pred(Cur, b, a), FALSE)
    /\ last' = [op |-> "other", n |-> ""]
    /\ UNCHANGED <<cfg, pc, edits>>

\* builder.add_sealed_block(b)
Seal(b) ==
    /\ Running
    /\ b \notin sealed_blocks
    /\ b <= pc
    /\ CfgPreds(b) = Range(blk[b].preds)
    /\ Step(add_sealed_block(Cur, b), FALSE)
    /\ last' = [op |-> "seal", n |-> ""]
    /\ UNCHANGED <<cfg, pc, edits>>

\* pc.add_instr(builder.new_variable(ir.Const(n, I32, v), pc))
EmitConst(n, v) ==
    /\ Running
    /\ v = "2" => \E i \in DOMAIN ins : ins[i].kind = "Const"
    /\ Step(add_instr(new_variable(MkConst(Cur, n, "I32", v), NextId(Cur), pc),
                       pc, NextId(Cur)),
            FALSE)
    /\ last' = [op |-> "other", n |-> ""]
    /\ UNCHANGED <<cfg, pc, edits>>

\* pc.add_instr(builder.new_variable(ir.Id(m, I32, builder.get_reaching_def(n, pc)), pc))
EmitId(m, n) ==
    /\ Running
    /\ MustDef(n, pc)
    /\ Step(DefineId(get_reaching_def(Cur, n, pc, MaxDepth), m, pc), FALSE)
    /\ last' = [op |-> "other", n |-> ""]
    /\ UNCHANGED <<cfg, pc, edits>>

\* builder.get_reaching_def(n, pc)
Query(n) ==
    /\ Running
    /\ MustDef(n, pc)
    /\ Step(get_reaching_def(Cur, n, pc, MaxDepth), TRUE)
    /\ last' = [op |-> "query", n |-> n]
    /\ UNCHANGED <<cfg, pc, edits>>

\* the front-end's program: x is assigned constants, y copies of x
ConstNames == {"x"}
CopyNames == {"y"}
ConstValues == {"1", "2"}

InitSSA ==
    /\ InitProgram
    /\ cfg \in CFGs
    /\ pc = Entry
    /\ last = [op |-> "other", n |-> ""]
    /\ edits = 0

NextSSA ==
    \/ NextBlock
    \/ \E a, b \in Blocks : AddPred(a, b)
    \/ \E b \in Blocks : Seal(b)
    \/ \E n \in ConstNames, v \in ConstValues : EmitConst(n, v)
    \/ \E m \in CopyNames, n \in ConstNames : EmitId(m, n)
    \/ \E n \in Names : Query(n)

SpecSSA == InitSSA /\ [][NextSSA]_vars

\* ------------------------------------------------ properties of the builder
\* the instruction is listed in some block
Listed(i) == \E b \in Blocks : i \in Range(blk[b].instrs) \cup Range(blk[b].phis)

\* the definition of n the front-end emitted last into block b (None: none)
LastDef(n, b) ==
    LET s == SelectSeq(blk[b].instrs, LAMBDA i : ins[i].name = n)
    IN  IF s = <<>> THEN None ELSE s[Len(s)]

\* the step is the front-end's call get_reaching_def(n, pc)
IsQuery(n) == last'.op = "query" /\ last'.n = n

\* C6: under well-formed use of the builder no call of new_variable,
\* get_reaching_def or add_sealed_block raises an error.
NoErrorWellFormed == err = "ok"

\* C4: once add_sealed_block(b) has returned, and after every later call that
\* returned, every phi listed in b.phis has exactly len(b.preds) inputs, and
\* every phi recorded as incomplete for b is one of these completed phis or is
\* listed in no block any more.
PhiCompleteness ==
    Running =>
        \A b \in sealed_blocks :
            /\ \A k \in DOMAIN blk[b].phis :
                   Len(ins[blk[b].phis[k]].ops) = Len(blk[b].preds)
            /\ \A k \in DOMAIN incomplete_phis[b] :
                   LET phi == incomplete_phis[b][k][2]
                   IN  \/ /\ phi \in Range(blk[b].phis)
                          /\ Len(ins[phi].ops) = Len(blk[b].preds)
                       \/ ~Listed(phi)

\* a sealed block with two predecessors holds a completed phi that was placed
\* in it as an incomplete phi while it was unsealed
PhiCompletenessWitness ==
    /\ Running
    /\ \E b \in sealed_blocks :
           /\ Len(blk[b].preds) = 2
           /\ \E k \in DOMAIN incomplete_phis[b] :
                  /\ incomplete_phis[b][k][2] \in Range(blk[b].phis)
                  /\ Len(ins[incomplete_phis[b][k][2]].ops) = 2

\* C7: while d is the definition of n that was registered last in block b,
\* get_reaching_def(n, b) returns d itself, inserts no phi and changes no state
\* of the builder or of the IR.
LocalLookup ==
    [][\A n \in Names :
          (IsQuery(n) /\ LastDef(n, pc) # None) =>
              /\ err' = "ok"
              /\ ret' = LastDef(n, pc)
              /\ UNCHANGED <<ins, blk, variables, incomplete_phis, sealed_blocks>>]_vars

\* a lookup returned the Const that the front-end had emitted into the block
LocalLookupWitness ==
    /\ last.op = "query"
    /\ LastDef(last.n, pc) # None
    /\ ret = LastDef(last.n, pc)
    /\ ins[ret].kind = "Const"

\* the definition that reaches the end of block b along sealed blocks with one
\* predecessor each (None: there is no such chain of at most k blocks)
RECURSIVE ChainDef(_, _, _)
ChainDef(n, b, k) ==
    IF LastDef(n, b) # None THEN LastDef(n, b)
    ELSE IF k > 0 /\ b \in sealed_blocks /\ Len(blk[b].preds) = 1
         THEN ChainDef(n, blk[b].preds[1], k - 1)
    ELSE None

\* C8: in a sealed block b with exactly one predecessor p and no local
\* definition of n, get_reaching_def(n, b) returns the instruction that
\* get_reaching_def(n, p) returns and adds no phi to b; along a chain of such
\* blocks it returns the original definition and adds no instruction at all.
SinglePredLookup ==
    [][\A n \in Names :
          (/\ IsQuery(n)
           /\ pc \in sealed_blocks
           /\ Len(blk[pc].preds) = 1
           /\ LastDef(n, pc) = None) =>
              /\ err' = "ok"
              /\ ret' = get_reaching_def(Cur, n, blk[pc].preds[1], MaxDepth).ret
              /\ blk'[pc].phis = blk[pc].phis
              /\ ChainDef(n, pc, Cardinality(Blocks)) # None =>
                     /\ ret' = ChainDef(n, pc, Cardinality(Blocks))
                     /\ ins' = ins]_vars

\* a lookup in the last block of a chain of two sealed single-predecessor
\* blocks returned the definition of the first block
SinglePredLookupWitness ==
    /\ last.op = "query"
    /\ pc \in sealed_blocks
    /\ Len(blk[pc].preds) = 1
    /\ LastDef(last.n, pc) = None
    /\ LET p == blk[pc].preds[1]
       IN  /\ p \in sealed_blocks
           /\ Len(blk[p].preds) = 1
           /\ LastDef(last.n, p) = None
           /\ ret = LastDef(last.n, blk[p].preds[1])
           /\ ret # None

\* C10: get_reaching_def(n, b) creates phis only for n, and leaves the counter
\* and the current definitions of every other variable as they are.
PrunedSSA ==
    [][\A n \in Names :
          IsQuery(n) =>
              /\ \A m \in Names \ {n} : variables'[m] = variables[m]
              /\ \A i \in DOMAIN ins' :
                     (i \notin DOMAIN ins /\ ins'[i].kind = "Phi") => ins'[i].name = n
              /\ \A b \in Blocks : \A k \in DOMAIN blk'[b].phis :
                     blk'[b].phis[k] \in Range(blk[b].phis)
                         \/ ins'[blk'[b].phis[k]].name = n]_vars

\* a lookup of one variable placed a phi in a block with two predecessors while
\* another variable is defined in the program as well
PrunedSSAWitness ==
    /\ last.op = "query"
    /\ ret # None
    /\ ins[ret].kind = "Phi"
    /\ ins[ret].name = last.n
    /\ ret \in Range(blk[pc].phis)
    /\ Len(blk[pc].preds) = 2
    /\ \E m \in Names \ {last.n} : variables[m].count >= 0

\* the definitions of n that the front-end emitted last into the predecessors of b
PredDefs(n, b) == {LastDef(n, blk[b].preds[k]) : k \in DOMAIN blk[b].preds}

\* C9: in a sealed block b with two or more predecessors whose reaching
\* definitions of n are at least two distinct instructions, get_reaching_def(n, b)
\* returns a new phi that stays in b's phi list with one input per predecessor.
NonTrivialPhiKept ==
    [][\A n \in Names :
          (/\ IsQuery(n)
           /\ pc \in sealed_blocks
           /\ Len(blk[pc].preds) >= 2
           /\ LastDef(n, pc) = None
           /\ variables[n].cur[pc] = -1
           /\ None \notin PredDefs(n, pc)
           /\ Cardinality(PredDefs(n, pc)) >= 2) =>
              /\ err' = "ok"
              /\ ret' \notin DOMAIN ins
              /\ ret' \in Range(blk'[pc].phis)
              /\ Len(ins'[ret'].ops) = Len(blk[pc].preds)]_vars

\* the block the instruction is listed in agrees with its block field
AttachedWhereListed(i) ==
    IF ins[i].block = None THEN ~Listed(i)
    ELSE i \in Range(blk[ins[i].block].instrs) \cup Range(blk[ins[i].block].phis)

\* C2: after every call that returned, an instruction's block field is non-null
\* if and only if the instruction is listed in that block's instruction list or
\* phi list; a phi deleted as trivial has a null block.
AttachmentConsistency == Running => \A i \in DOMAIN ins : AttachedWhereListed(i)

\* --------------------------------------------- a client mutating the IR graph
\* A client of compiler/ir.py (a front-end, a pass) that builds instructions
\* and edits one block, the entry block, through the public operations, each
\* called with arguments its assertions and its documentation allow.
Assigns == {i \in DOMAIN ins : ins[i].kind \in AssignKinds}
Unattached(i) == ins[i].block = None /\ ~Listed(i)
Calls == {i \in DOMAIN ins : ins[i].kind \in CallKinds}
Phis == {i \in DOMAIN ins : ins[i].kind = "Phi"}

MaxEdits == 2      \* number of edits the client makes to what it has built

\* the step of the client: S is the program after the call, cost is 1 for a
\* call that edits the graph and 0 for one that builds it
Does(S, op, cost) ==
    /\ Fits(S)
    /\ edits + cost <= MaxEdits
    /\ Install(S, FALSE)
    /\ last' = [op |-> op, n |-> ""]
    /\ edits' = edits + cost
    /\ UNCHANGED <<cfg, pc>>

\* ir.Const("x", I32, v)
NewConst(v) ==
    /\ Running
    /\ v = "2" => \E i \in DOMAIN ins : ins[i].kind = "Const"
    /\ Does(MkConst(Cur, "x", "I32", v), "new", 0)

\* ir.Id("y", I32, a)
NewId(a) ==
    /\ Running
    /\ a \in Assigns
    /\ Does(MkId(Cur, "y", "I32", a), "new", 0)

\* ir.BinOp("y", I32, Op.ADD, a, b)
NewBinOp(a, b) ==
    /\ Running
    /\ a \in Assigns /\ b \in Assigns
    /\ Does(MkBinOp(Cur, "y", "I32", "ADD", a, b), "new", 0)

\* ir.ProcedureCall("f", [a, b])
NewProcedureCall(a, b) ==
    /\ Running
    /\ a \in Assigns /\ b \in Assigns
    /\ Does(MkProcedureCall(Cur, "f", <<a, b>>), "new", 0)

\* ir.Phi("x", I32)
NewPhi ==
    /\ Running
    /\ Does(MkPhi(Cur, "x", "I32"), "new", 0)

\* block.add_instr(i), block.add_phi_instr(i) for a phi
AddInstr(i) ==
    /\ Running
    /\ i \in DOMAIN ins /\ Unattached(i)
    /\ Does(IF ins[i].kind = "Phi" THEN add_phi_instr(Cur, Entry, i)
            ELSE add_instr(Cur, Entry, i), "add_instr", 0)

\* block.insert_instr(i, loc)
InsertInstr(i, loc) ==
    /\ Running
    /\ i \in DOMAIN ins /\ Unattached(i) /\ ins[i].kind # "Phi"
    /\ loc \in 0..(Len(blk[Entry].instrs) - 1)
    /\ Does(insert_instr(Cur, Entry, i, loc), "insert_instr", 1)

\* block.replace_instr(old, new): old is in the block, new is attached nowhere
\* and has no users
ReplaceInstr(old, new) ==
    /\ Running
    /\ old \in Range(blk[Entry].instrs)
    /\ new \in DOMAIN ins /\ Unattached(new) /\ ins[new].kind # "Phi"
    /\ ins[new].users = <<>>
    /\ IsAssign(Cur, old) /\ IsAssign(Cur, new)
    /\ Does(replace_instr(Cur, Entry, old, new), "replace_instr", 1)

\* block.remove_instr(i) for an instruction of the block, used or not
RemoveInstr(i) ==
    /\ Running
    /\ i \in Range(blk[Entry].instrs)
    /\ Does(remove_instr(Cur, Entry, i), "remove_instr", 1)

\* i.replace_by(v)
ReplaceBy(i, v) ==
    /\ Running
    /\ i \in Assigns /\ v \in Assigns /\ i # v
    /\ v \notin Range(ins[i].users)
    /\ Does(replace_by(Cur, i, v), "replace_by", 1)

\* i.set_operand_at(idx, new) for an operand that is an SSA value
SetOperandAt(i, idx, new) ==
    /\ Running
    /\ i \in DOMAIN ins /\ ins[i].kind \in {"BinOp", "Id"} \cup CallKinds
    /\ idx \in (IF ins[i].kind = "Id" THEN {0} ELSE 1..Len(ins[i].ops))
    /\ new \in Assigns /\ new # i
    /\ Does(set_operand_at(Cur, i, idx, new), "set_operand_at", 1)

\* c.add_param(p)
AddParam(c, p) ==
    /\ Running
    /\ c \in Calls /\ p \in Assigns
    /\ Len(ins[c].ops) < MaxInstr
    /\ Does(add_param(Cur, c, p), "add_param", 1)

\* c.remove_param(p) for a parameter of c
RemoveParam(c, p) ==
    /\ Running
    /\ c \in Calls /\ p \in Range(ins[c].ops)
    /\ Does(remove_param(Cur, c, p), "remove_param", 1)

\* phi.add_input(v) for a value that is in a block
AddInput(phi, v) ==
    /\ Running
    /\ phi \in Phis /\ v \in Assigns /\ v # phi
    /\ ins[v].block # None
    /\ Len(ins[phi].ops) < MaxInstr
    /\ Does(add_input(Cur, phi, v), "add_input", 1)

\* phi.remove_input(v) for an input of phi
RemoveInput(phi, v) ==
    /\ Running
    /\ phi \in Phis /\ v \in Range(ins[phi].ops)
    /\ Does(remove_input(Cur, phi, v), "remove_input", 1)

Init ==
    /\ InitProgram
    /\ cfg = {}
    /\ pc = Entry
    /\ last = [op |-> "other", n |-> ""]
    /\ edits = 0

Next ==
    \/ \E v \in ConstValues : NewConst(v)
    \/ \E a \in 1..MaxInstr : NewId(a)
    \/ \E a, b \in 1..MaxInstr : NewBinOp(a, b)
    \/ \E a, b \in 1..MaxInstr : NewProcedureCall(a, b)
    \/ NewPhi
    \/ \E i \in 1..MaxInstr : AddInstr(i)
    \/ \E i \in 1..MaxInstr, loc \in 0..MaxInstr : InsertInstr(i, loc)
    \/ \E old, new \in 1..MaxInstr : ReplaceInstr(old, new)
    \/ \E i \in 1..MaxInstr : RemoveInstr(i)
    \/ \E i, v \in 1..MaxInstr : ReplaceBy(i, v)
    \/ \E i, new \in 1..MaxInstr, idx \in 0..MaxInstr : SetOperandAt(i, idx, new)
    \/ \E c, p \in 1..MaxInstr : AddParam(c, p)
    \/ \E c, p \in 1..MaxInstr : RemoveParam(c, p)
    \/ \E phi, v \in 1..MaxInstr : AddInput(phi, v)
    \/ \E phi, v \in 1..MaxInstr : RemoveInput(phi, v)

Spec == Init /\ [][Next]_vars

\* C1: after every public mutation of the IR graph, for all instructions u and
\* v: v is in u.used_vars if and only if u is in v.users.
UseDefSymmetry ==
    Running =>
        \A u, v \in DOMAIN ins :
            (v \in Range(ins[u].used)) <=> (u \in Range(ins[v].users))

\* C3: Const and Ubr have empty used_vars, and for every other instruction
\* that is no phi the set of instructions in used_vars equals the set of SSA
\* values held in its operand fields.
OperandsAgreeWithUsedVars ==
    Running =>
        \A i \in DOMAIN ins :
            /\ ins[i].kind \in {"Const", "Ubr"} => ins[i].used = <<>>
            /\ ins[i].kind # "Phi" => Range(ins[i].used) = Range(ins[i].ops)

\* ------------------------------------- a front-end that runs the pass at the end
\* The front-end of main.py: it fills the entry block through the builder with
\* constants, copies, additions and procedure calls and then runs a new LVN
\* pass over the block.
MaxBlockInstr == 4      \* instructions the front-end puts into the block

Building == Running /\ last.op # "lvn"
Defined(n) == variables[n].count >= 0 /\ variables[n].cur[Entry] > 0

\* a call of the front-end that leaves the program as S
Builds(S) ==
    /\ Len(S.ins) <= MaxBlockInstr
    /\ Install(S, FALSE)
    /\ last' = [op |-> "build", n |-> ""]
    /\ UNCHANGED <<cfg, pc, edits>>

\* block.add_instr(builder.new_variable(instr, block)) for the instruction
\* built last
Define(S) == add_instr(new_variable(S, Len(S.ins), Entry), Entry, Len(S.ins))

\* the operand read by the first get_reaching_def call of a statement
Operand(n) == get_reaching_def(Cur, n, Entry, MaxDepth)

\* ir.Const(n, I8, v)
BuildConst(n, v) ==
    /\ Building
    /\ Builds(Define(MkConst(Cur, n, "I8", v)))

\* ir.Id(m, I8, r) for the value r that the call before returned
IdOf(S, m) == MkId(S, m, "I8", S.ret)

\* ir.Id(m, I8, builder.get_reaching_def(n, block))
BuildId(m, n) ==
    /\ Building
    /\ Defined(n)
    /\ Builds(Define(IdOf(Operand(n), m)))

\* ir.BinOp(m, I8, ADD, x, r) for the value r that the call before returned
AddOf(S, m, x) == MkBinOp(S, m, "I8", "ADD", x, S.ret)

\* the second operand is looked up after the first
SecondOperand(S, m, n) == AddOf(get_reaching_def(S, n, Entry, MaxDepth), m, S.ret)

\* ir.BinOp(m, I8, ADD, builder.get_reaching_def(n1, block),
\*          builder.get_reaching_def(n2, block))
BuildBinOp(m, n1, n2) ==
    /\ Building
    /\ Defined(n1) /\ Defined(n2)
    /\ Builds(Define(SecondOperand(Operand(n1), m, n2)))

\* ir.ProcedureCall("f", [r]) for the value r that the call before returned
CallOf(S) == MkProcedureCall(S, "f", <<S.ret>>)

\* block.add_instr(ir.ProcedureCall("f", [builder.get_reaching_def(n, block)]))
AppendCall(S) == add_instr(S, Entry, Len(S.ins))

BuildCall(n) ==
    /\ Building
    /\ Defined(n)
    /\ Builds(AppendCall(CallOf(Operand(n))))

\* lvn = LVN(); lvn.run_pass(block)
RunLVN ==
    /\ Building
    /\ blk[Entry].instrs # <<>>
    /\ Install(LVN_run_pass(Cur, -1, Entry), FALSE)
    /\ last' = [op |-> "lvn", n |-> ""]
    /\ UNCHANGED <<cfg, pc, edits>>

InitLVN ==
    /\ InitProgram
    /\ cfg = {}
    /\ pc = Entry
    /\ last = [op |-> "other", n |-> ""]
    /\ edits = 0

NextLVN ==
    \/ \E n \in Names, v \in ConstValues : BuildConst(n, v)
    \/ \E m, n \in Names : BuildId(m, n)
    \/ \E n1, n2 \in Names : BuildBinOp("y", n1, n2)
    \/ \E n \in Names : BuildCall(n)
    \/ RunLVN

SpecLVN == InitLVN /\ [][NextLVN]_vars

\* an instruction that its block lists
Attached(i) ==
    /\ ins[i].block # None
    /\ i \in Range(blk[ins[i].block].instrs) \cup Range(blk[ins[i].block].phis)

\* C5: no two distinct assignment instructions attached to blocks have the
\* same pair (name, ssa_id), during SSA construction and after LVN and DIA
\* have replaced or removed instructions.
UniqueSSANames ==
    Running =>
        \A i, j \in DOMAIN ins :
            (/\ i # j
             /\ ins[i].kind \in AssignKinds /\ ins[j].kind \in AssignKinds
             /\ Attached(i) /\ Attached(j))
            => <<ins[i].name, ins[i].ssa>> # <<ins[j].name, ins[j].ssa>>

\* ------------------------------------------------------- loops and trivial phis
\* the blocks reached from the blocks X over one edge of the graph
CfgSuccs(X) == {e[2] : e \in {e \in cfg : e[1] \in X}}

\* the graph has a loop: some block is reached from itself
HasLoop ==
    \E b \in Blocks :
        b \in CfgSuccs({b}) \cup CfgSuccs(CfgSuccs({b}))
              \cup CfgSuccs(CfgSuccs(CfgSuccs({b})))

\* the instructions other than phis that define n
DefsOf(n) == {i \in DOMAIN ins : ins[i].name = n /\ ins[i].kind # "Phi"}

\* n has one definition, and the entry block lists it
OnlyEntryDef(n) ==
    /\ Cardinality(DefsOf(n)) = 1
    /\ DefsOf(n) \subseteq Range(blk[Entry].instrs)

EntryDef(n) == CHOOSE i \in DefsOf(n) : TRUE

\* C11: in a graph with loops where the only definition of x is in the entry
\* block, once every block is sealed and while no call has raised, no block
\* lists a phi for x, every listed instruction that reads x reads the entry
\* definition, every current definition of x is the entry definition, and a
\* call get_reaching_def(x, b) has returned the entry definition.
LoopsResolve ==
    (Running /\ HasLoop /\ OnlyEntryDef("x") /\ sealed_blocks = Blocks) =>
        /\ \A b \in Blocks : \A k \in DOMAIN blk[b].phis : ins[blk[b].phis[k]].name # "x"
        /\ \A i \in DOMAIN ins :
               (Listed(i) /\ ins[i].kind # "Phi")
               => \A k \in DOMAIN ins[i].ops :
                      ins[ins[i].ops[k]].name = "x" => ins[i].ops[k] = EntryDef("x")
        /\ \A b \in Blocks : variables["x"].cur[b] \in {-1, EntryDef("x")}
        /\ (last.op = "query" /\ last.n = "x") => ret = EntryDef("x")

\* the one instruction that all inputs of phi are, self-references ignored
\* (None: phi has no such input, or several)
SameOf(S, phi) ==
    IF Cardinality(Range(S.ins[phi].ops) \ {phi}) = 1
    THEN CHOOSE v \in Range(S.ins[phi].ops) \ {phi} : TRUE
    ELSE None

\* the step is add_sealed_block(b) for a block whose one incomplete phi is phi
SealsOne(b, phi) ==
    /\ phi \in DOMAIN ins
    /\ incomplete_phis[b] = << <<ins[phi].name, phi>> >>
    /\ Seal(b)

\* the program when that call has filled phi and calls remove_trivial_phi(phi)
Filled(phi) == AddPhiInputs(Cur, ins[phi].name, phi, 1, MaxDepth)

\* the step is get_reaching_def(n, pc) for a sealed block without definition of
\* n that has not exactly one predecessor, which places a phi
QueryPlaces(n) ==
    /\ variables[n].count >= 0
    /\ variables[n].cur[pc] = -1
    /\ pc \in sealed_blocks
    /\ Len(blk[pc].preds) # 1
    /\ Query(n)

\* the program when that call has filled the phi and calls remove_trivial_phi
Placed(n) == AddPhiInputs(PlacedPhi(Cur, n, pc), n, NextId(Cur), 1, MaxDepth)

\* remove_trivial_phi(phi), called in program M where all inputs of phi are
\* same, has returned and left the program of the primed variables
TrivialRemoved(M, phi, same) ==
    /\ err' = "ok"
    /\ phi \notin Range(blk'[M.ins[phi].block].phis)
    /\ ins'[phi].users = <<>>
    /\ \A c \in Blocks :
           M.vars[M.ins[phi].name].cur[c] = phi
           => variables'[M.ins[phi].name].cur[c] = same
    /\ \A u \in Range(M.ins[phi].users) \ {phi} :
           /\ phi \notin Range(ins'[u].ops)
           /\ same \in Range(ins'[u].ops)
           /\ (ins'[u].kind = "Phi" /\ u \in Range(blk'[ins'[u].block].phis))
              => Cardinality(Range(ins'[u].ops) \ {u}) >= 2

\* the call of remove_trivial_phi(phi) in program M meets its contract
RemovalAsSpecified(M, phi) ==
    (OK(M) /\ SameOf(M, phi) # None) => TrivialRemoved(M, phi, SameOf(M, phi))

\* C12: when remove_trivial_phi(phi) finds all inputs of phi, self-references
\* ignored, to be one instruction same, then on return phi is in no phi list,
\* has no users, the current definitions that were phi are same, every former
\* user reads same, every former user that is a phi and still listed is not
\* trivial, and the value returned is same.
TrivialPhiRemoval ==
    [][/\ \A b \in Blocks, phi \in 1..MaxInstr :
              SealsOne(b, phi) => RemovalAsSpecified(Filled(phi), phi)
       /\ \A n \in Names :
              QueryPlaces(n) =>
                  /\ RemovalAsSpecified(Placed(n), NextId(Cur))
                  /\ (OK(Placed(n)) /\ SameOf(Placed(n), NextId(Cur)) # None)
                     => ret' = SameOf(Placed(n), NextId(Cur))]_vars

\* the program the step leaves
CurNext == [ins |-> ins', blk |-> blk', vars |-> variables', inc |-> incomplete_phis',
            sealed |-> sealed_blocks', err |-> err', ret |-> ret']

\* a run of remove_trivial_phi(phi) on program N returns and leaves the
\* instruction graph and the builder state of N
LeavesAsIs(N, phi) ==
    /\ OK(remove_trivial_phi(N, phi))
    /\ remove_trivial_phi(N, phi).ins = N.ins
    /\ remove_trivial_phi(N, phi).blk = N.blk
    /\ remove_trivial_phi(N, phi).vars = N.vars
    /\ remove_trivial_phi(N, phi).inc = N.inc
    /\ remove_trivial_phi(N, phi).sealed = N.sealed

\* C13: when a run of remove_trivial_phi(phi) has returned, a second run on
\* the same phi right after it returns too and leaves the instruction graph
\* and the builder state exactly as the first run left them, whether the first
\* run kept the phi or removed it.
TrivialPhiIdempotence ==
    [][/\ \A b \in Blocks, phi \in 1..MaxInstr :
              (SealsOne(b, phi) /\ err' = "ok") => LeavesAsIs(CurNext, phi)
       /\ \A n \in Names :
              (QueryPlaces(n) /\ err' = "ok") => LeavesAsIs(CurNext, NextId(Cur))]_vars

\* --- editing a block

\* the position of instruction i itself in the instruction list of block b
IndexOf(b, i) == CHOOSE k \in DOMAIN blk[b].instrs : blk[b].instrs[k] = i

\* C14: Block.replace_instr(old, new), with old in the block and new detached
\* and unused, returns and leaves new at the index old had and every other
\* instruction of the block at its position, every former user of old reads
\* new and not old, and old has no users and no used-vars.
ReplaceInstrContract ==
    [][\A old, new \in 1..MaxInstr :
           ReplaceInstr(old, new) =>
               /\ err' = "ok"
               /\ blk'[Entry].instrs =
                      [blk[Entry].instrs EXCEPT ![IndexOf(Entry, old)] = new]
               /\ \A u \in Range(ins[old].users) :
                      /\ new \in Range(ins'[u].ops)
                      /\ old \notin Range(ins'[u].ops)
               /\ ins'[old].users = <<>>
               /\ ins'[old].used = <<>>]_vars

\* C15: Block.remove_instr(i), with i in the block and unused, returns and has
\* removed exactly i from the block's list, i.block is null, i is in the users
\* list of no instruction, and every other instruction of the block keeps its
\* relative position, its block and its other users.
RemoveInstrContract ==
    [][\A i \in 1..MaxInstr :
           (RemoveInstr(i) /\ ins[i].users = <<>>) =>
               /\ err' = "ok"
               /\ blk'[Entry].instrs = RemoveAt(blk[Entry].instrs, IndexOf(Entry, i))
               /\ ins'[i].block = None
               /\ \A j \in Range(blk[Entry].instrs) \ {i} :
                      /\ ins'[j].block = ins[j].block
                      /\ Range(ins'[j].users) = Range(ins[j].users) \ {i}]_vars

\* C16: Block.remove_instr(i) on an instruction of the block that has at least
\* one user fails with AssertionError and changes nothing: the block's lists,
\* i.block and every users and used_vars list are as before the call.
UsedRemovalRejected ==
    [][\A i \in 1..MaxInstr :
           (RemoveInstr(i) /\ ins[i].users # <<>>) =>
               /\ err' = "AssertionError"
               /\ ins' = ins
               /\ blk' = blk]_vars

\* C17: x.replace_by(y) returns and leaves x without users and without
\* used-vars; every former user u of x has y in its used_vars, is in y.users
\* and holds x in none of its operand fields.
ReplaceByRedirects ==
    [][\A x, y \in 1..MaxInstr :
           ReplaceBy(x, y) =>
               /\ err' = "ok"
               /\ ins'[x].users = <<>>
               /\ ins'[x].used = <<>>
               /\ \A u \in Range(ins[x].users) :
                      /\ y \in Range(ins'[u].used)
                      /\ u \in Range(ins'[y].users)
                      /\ x \notin Range(ins'[u].ops)]_vars

\* --- local value numbering and dead instruction removal

\* the frame in which LVN.run_pass of a new pass on the entry block ends
Passed == LVN_run_pass(Cur, -1, Entry)

\* the Value that run_pass builds for instruction i from the numberings of
\* frame F (the instruction itself where it cannot be built)
Fingerprint(F, i) ==
    With(ValueParams([F EXCEPT !.params = <<>>], i, 0, operand_num(F, i)), LAMBDA G :
         IF OK(G) /\ \A k \in DOMAIN G.params : G.params[k].kind # "instr"
         THEN Value(opcode_name(F, i), F.ins[i].ty,
                    PyBool(F.ins[i].kind = "BinOp" /\ is_commutative(F.ins[i].val)),
                    G.params)
         ELSE [opcode_name |-> "", instr_type |-> "", params |-> <<i>>])

\* the assignment instructions other than calls in the list of block b
Remaining(F, b) ==
    {i \in Range(F.blk[b].instrs) : IsAssign(F, i) /\ F.ins[i].kind \notin CallKinds}

\* no two of them have equal fingerprints
DistinctFingerprints(F, b) ==
    \A i, j \in Remaining(F, b) : i # j => Fingerprint(F, i) # Fingerprint(F, j)

\* C18: after LVN followed by DIA on a block, no two instructions remaining
\* in the block that are assignment instructions other than calls have equal
\* Value fingerprints.
NoEqualFingerprints ==
    [][(RunLVN /\ err' = "ok") => DistinctFingerprints(Passed, Entry)]_vars

\* A client that builds instructions, puts them into the blocks and runs the
\* dead instruction pass on a block.

\* b.add_instr(i) for an instruction that is in no block
AddInstrTo(b, i) ==
    /\ Running
    /\ i \in DOMAIN ins /\ Unattached(i) /\ ins[i].kind # "Phi"
    /\ Does(add_instr(Cur, b, i), "add_instr", 0)

\* DIA().run_pass(b)
RunDIA(b) ==
    /\ Running
    /\ blk[b].instrs # <<>>
    /\ Does(DIA_run_pass(Cur, b), "dia", 1)

NextDIA ==
    \/ \E v \in ConstValues : NewConst(v)
    \/ \E a \in 1..MaxInstr : NewId(a)
    \/ \E a, b \in 1..MaxInstr : NewBinOp(a, b)
    \/ \E a, b \in 1..MaxInstr : NewProcedureCall(a, b)
    \/ \E b \in Blocks, i \in 1..MaxInstr : AddInstrTo(b, i)
    \/ \E b \in Blocks : RunDIA(b)

SpecDIA == Init /\ [][NextDIA]_vars

\* instruction i is in the instruction list of block b when the step is done
InListNext(b, i) == i \in Range(blk'[b].instrs)

\* C19: after DIA.run_pass(block) the block contains no assignment
\* instruction that is not a call and has no users.
DIARemovesAllDead ==
    [][\A b \in Blocks :
           (RunDIA(b) /\ err' = "ok") =>
               \A i \in DOMAIN ins : InListNext(b, i) => ~Dead(CurNext, i)]_vars

\* C20: when DIA.run_pass removes an instruction i, every instruction that i
\* read, that is an assignment instruction and no call and that has no users
\* afterwards, is in the instruction list of no block.
DIARemovesAcrossBlocks ==
    [][\A b \in Blocks :
           (RunDIA(b) /\ err' = "ok") =>
               \A i \in Range(blk[b].instrs) :
                   ~InListNext(b, i) =>
                       \A v \in Range(ins[i].used) :
                           Dead(CurNext, v) => \A c \in Blocks : ~InListNext(c, v)]_vars

\* ------------------------------------------------- a client that folds
\* A client that builds integer constants and binary operations over them and
\* calls fold_instr on an operation.
FoldValues == {"-128", "-3", "0", "1", "2", "7", "127", "200"}
FoldTypes == {"I8", "U8"}
MaxShift == 8       \* largest shift amount the client asks for

\* ir.Const("x", I8, v)
NewLiteral(v) ==
    /\ Running
    /\ Len(ins) < 2
    /\ Does(MkConst(Cur, "x", "I8", v), "new", 0)

\* ir.BinOp("y", ty, op, a, b) over two constants
NewArith(ty, op, a, b) ==
    /\ Running
    /\ Len(ins) = 2
    /\ a \in DOMAIN ins /\ b \in DOMAIN ins
    /\ op \in {"LSH", "RSH"} => ParseInt(ins[b].val).val <= MaxShift
    /\ Does(MkBinOp(Cur, "y", ty, op, a, b), "new", 0)

\* fold_instr(i)
Fold(i) ==
    /\ Running
    /\ i \in DOMAIN ins /\ last.op # "fold"
    /\ Len(fold_instr(Cur, i).ins) <= MaxBlockInstr
    /\ Install(fold_instr(Cur, i), TRUE)
    /\ last' = [op |-> "fold", n |-> ""]
    /\ UNCHANGED <<cfg, pc, edits>>

NextFold ==
    \/ \E v \in FoldValues : NewLiteral(v)
    \/ \E ty \in FoldTypes, op \in FoldOps \cup {"DIV"}, a, b \in 1..MaxInstr :
           NewArith(ty, op, a, b)
    \/ \E i \in 1..MaxInstr : Fold(i)

SpecFold == Init /\ [][NextFold]_vars

\* the integers of a fixed-width type: the I types are the signed ones, the U
\* types the unsigned ones
TypeRange(ty) ==
    IF ty \in {"U8", "U16", "U32"} THEN 0..(Pow2(TypeBits[ty]) - 1)
    ELSE (-Pow2(TypeBits[ty] - 1))..(Pow2(TypeBits[ty] - 1) - 1)

\* the integer that the constant c holds
IntOf(c) == ParseInt(ins[c].val).val

\* the operation of BinOp i on the integers of its operands
Exact(i) == Operate(ins[i].val, IntOf(ins[i].ops[1]), IntOf(ins[i].ops[2])).val

\* the integer of the constant that the step returns
FoldedInt == ParseInt(ins'[ret'].val).val

\* C21: for every foldable op, every integer type and all constant operands
\* for which the operation is defined, the folded value is congruent to the
\* exact result modulo 2^bits and lies in the range of the result type,
\* [0, 2^bits - 1] for an unsigned and [-2^(bits-1), 2^(bits-1) - 1] for a
\* signed type.
WrapCorrectFolding ==
    [][\A i \in 1..MaxInstr :
           (Fold(i) /\ err' = "ok" /\ ret' # None) =>
               /\ ins'[ret'].kind = "Const"
               /\ ParseInt(ins'[ret'].val).ok
               /\ (FoldedInt - Exact(i)) % Pow2(TypeBits[ins[i].ty]) = 0
               /\ FoldedInt \in TypeRange(ins[i].ty)]_vars

\* ------------------------------------------------- a client that adds edges
\* A client that calls add_pred and add_succ on the blocks in any order.
MaxCalls == 3       \* calls the client makes

\* a call that leaves the program as S
CallsEdge(S, op) ==
    /\ edits < MaxCalls
    /\ Install(S, FALSE)
    /\ last' = [op |-> op, n |-> ""]
    /\ edits' = edits + 1
    /\ UNCHANGED <<cfg, pc>>

\* b.add_pred(a)
CallAddPred(b, a) ==
    /\ Running
    /\ CallsEdge(add_pred(Cur, b, a), "add_pred")

\* a.add_succ(b)
CallAddSucc(a, b) ==
    /\ Running
    /\ CallsEdge(add_succ(Cur, a, b), "add_succ")

NextCFG ==
    \/ \E a, b \in Blocks : CallAddPred(b, a)
    \/ \E a, b \in Blocks : CallAddSucc(a, b)

SpecCFG == Init /\ [][NextCFG]_vars

\* C22: after any sequence of add_pred and add_succ calls, for all blocks a
\* and b, a is in b.preds if and only if b is in a.succs.
EdgeSymmetry ==
    \A a, b \in Blocks : (a \in Range(blk[b].preds)) <=> (b \in Range(blk[a].succs))

\* calls of both kinds have been made and two blocks are joined both ways
EdgeSymmetryWitness ==
    /\ edits = MaxCalls
    /\ last.op = "add_succ"
    /\ \E a, b \in Blocks :
           /\ a # b
           /\ a \in Range(blk[b].preds) /\ b \in Range(blk[a].preds)
           /\ Len(blk[b].preds) = 1

\* the number of times x occurs in the list s
Occurrences(s, x) == Cardinality({k \in DOMAIN s : s[k] = x})

\* C29: after b.add_pred(a), further calls of b.add_pred(a) and a.add_succ(b)
\* in any number and order leave a exactly once in b.preds and b exactly once
\* in a.succs.
EdgeInsertedOnce ==
    \A a, b \in Blocks :
        /\ Occurrences(blk[b].preds, a) <= 1
        /\ Occurrences(blk[a].succs, b) <= 1

\* ------------------------------------------------------------ use-def lists
\* the list s holds no element twice
NoRepeat(s) == \A j, k \in DOMAIN s : s[j] = s[k] => j = k

\* C23: after any sequence of public mutations no instruction occurs more
\* than once in any users list or in any used_vars list, also when an
\* instruction reads the same value in two operand positions.
NoDuplicateUses ==
    \A i \in DOMAIN ins : NoRepeat(ins[i].users) /\ NoRepeat(ins[i].used)

\* an instruction reads one value in two operand positions, and the graph
\* has been edited since
NoDuplicateUsesWitness ==
    /\ err = "ok"
    /\ edits > 0
    /\ \E i \in DOMAIN ins :
           /\ Len(ins[i].ops) = 2
           /\ ins[i].ops[1] = ins[i].ops[2]
           /\ ins[i].used = <<ins[i].ops[1]>>
           /\ ins[ins[i].ops[1]].users = <<i>>

\* ---------------------------------------------------------- operand access
\* C24: for every instruction and every index below operand_num,
\* get_operand_at returns an operand, which for a phi with n inputs is the
\* input at that index, for every index 0..n-1.
UniformOperandAccess ==
    Running =>
        \A i \in DOMAIN ins : \A idx \in 0..(operand_num(Cur, i) - 1) :
            /\ get_operand_at(Cur, i, idx).err = "ok"
            /\ ins[i].kind = "Phi" =>
                   get_operand_at(Cur, i, idx).val = Opnd("instr", ins[i].ops[idx + 1], "")

\* --------------------------------------------------- queries of the builder
\* C25: the instruction that get_reaching_def(n, b) returns is, when the call
\* returns, listed in the instructions or phis of the block it belongs to.
ReturnedIsAttached ==
    (Running /\ last.op = "query") =>
        /\ ret # None
        /\ ins[ret].block # None
        /\ ret \in Range(blk[ins[ret].block].instrs) \cup Range(blk[ins[ret].block].phis)

\* The front-end of the builder on graphs whose loop body has a self-loop:
\* block 2 is the loop header, block 3 branches back to it and to itself.
LoopCFGs == { {<<1, 2>>, <<2, 3>>, <<3, 2>>, <<3, 3>>},
              {<<1, 2>>, <<1, 3>>, <<2, 3>>, <<3, 2>>, <<3, 3>>} }

InitLoop ==
    /\ InitProgram
    /\ cfg \in LoopCFGs
    /\ pc = Entry
    /\ last = [op |-> "other", n |-> ""]
    /\ edits = 0

SpecLoop == InitLoop /\ [][NextSSA]_vars

\* C26: for every graph, with or without cycles, and in every sealing state,
\* get_reaching_def(n, b) returns: it does not recurse without end.
QueryTerminates ==
    last.op = "query" => err # "RecursionError"

\* a call of get_reaching_def(n, b) on program N returns instruction r and
\* leaves the instruction graph and the builder state of N
SameAgain(N, n, b, r) ==
    /\ OK(get_reaching_def(N, n, b, MaxDepth))
    /\ get_reaching_def(N, n, b, MaxDepth).ret = r
    /\ get_reaching_def(N, n, b, MaxDepth).ins = N.ins
    /\ get_reaching_def(N, n, b, MaxDepth).blk = N.blk
    /\ get_reaching_def(N, n, b, MaxDepth).vars = N.vars
    /\ get_reaching_def(N, n, b, MaxDepth).inc = N.inc

\* C27: when get_reaching_def(n, b) has returned, calling it again right away
\* returns the same instruction and changes nothing: no new phi, no counter
\* advance.
QueriesRepeatable ==
    [][\A n \in Names : (Query(n) /\ err' = "ok") => SameAgain(CurNext, n, pc, ret')]_vars

\* ------------------------------------------- queries where nothing is defined
\* builder.get_reaching_def(n, b) for any block b the front-end has emitted,
\* whether or not a definition of n reaches it
QueryAt(n, b) ==
    /\ Running
    /\ b <= pc
    /\ Step(get_reaching_def(Cur, n, b, MaxDepth), TRUE)
    /\ last' = [op |-> "query", n |-> n]
    /\ UNCHANGED <<cfg, pc, edits>>

NextEntry ==
    \/ NextBlock
    \/ \E a, b \in Blocks : AddPred(a, b)
    \/ \E b \in Blocks : Seal(b)
    \/ \E n \in ConstNames, v \in ConstValues : EmitConst(n, v)
    \/ \E n \in ConstNames, b \in Blocks : QueryAt(n, b)

SpecEntry == InitSSA /\ [][NextEntry]_vars

\* block b is sealed, has no predecessor and no definition of the registered
\* name n
InitialBlockCase(n, b) ==
    /\ b \in sealed_blocks
    /\ blk[b].preds = <<>>
    /\ variables[n].count # -1
    /\ variables[n].cur[b] = -1

\* C28: a query of a name in a sealed block with zero predecessors and no
\* definition of the name returns a phi that has no inputs
InitialBlockYieldsEmptyPhi ==
    [][\A n \in ConstNames, b \in Blocks :
          (InitialBlockCase(n, b) /\ QueryAt(n, b))
              => /\ err' = "ok"
                 /\ ret' # None
                 /\ ins'[ret'].kind = "Phi"
                 /\ ins'[ret'].ops = <<>>]_vars

\* --- the lookup hit of local value numbering

\* `for instr in block.instrs` of LVN.run_pass from index k up to index n
RECURSIVE LvnUpTo(_, _, _, _)
LvnUpTo(F, b, k, n) ==
    IF ~OK(F) \/ k > n \/ k > Len(F.blk[b].instrs) THEN F
    ELSE LvnUpTo(LvnInstr(F, b, F.blk[b].instrs[k]), b, k + 1, n)

\* the frame of a new pass on the entry block after the first n instructions
AfterStep(n) == LvnUpTo(Frame(Cur, -1), Entry, 1, n)

\* in frame F, instruction i is an assignment that is not folded and whose
\* Value is the Value of an instruction that the pass has met before
RepeatsEarlier(F, i) ==
    /\ OK(F)
    /\ IsAssign(F, i)
    /\ OK(fold_instr(F, i)) /\ fold_instr(F, i).ret = None
    /\ Fingerprint(F, i) \in DOMAIN F.value_table

\* the instruction that was registered under the Value of i
Canonical(F, i) == F.name[F.value_table[Fingerprint(F, i)]]

\* in frame G the k-th place of the block holds an Id that copies the
\* canonical instruction of i and has the name and the ssa_id of i
CopiesCanonical(F, G, k, i) ==
    /\ OK(G)
    /\ G.ins[G.blk[Entry].instrs[k]].kind = "Id"
    /\ G.ins[G.blk[Entry].instrs[k]].ops = <<Canonical(F, i)>>
    /\ G.ins[G.blk[Entry].instrs[k]].name = F.ins[i].name
    /\ G.ins[G.blk[Entry].instrs[k]].ssa = F.ins[i].ssa

HitAt(F, G, k) ==
    RepeatsEarlier(F, F.blk[Entry].instrs[k])
        => CopiesCanonical(F, G, k, F.blk[Entry].instrs[k])

\* C30: when LVN.run_pass comes to an assignment instruction whose Value
\* equals that of an earlier instruction of the block, it puts into its place
\* an Id that copies the earlier instruction and has the name and the ssa_id
\* of the instruction replaced, whatever value number the earlier one has.
LookupHitReplaces ==
    [][RunLVN => \A k \in DOMAIN blk[Entry].instrs :
                     HitAt(AfterStep(k - 1), AfterStep(k), k)]_vars

\* ------------------------------- a front-end that builds operations of any kind
\* The front-end fills the entry block with constants and binary
\* operations of two operators and two types and then runs a new LVN pass.
OpTypes == {"I8", "I16"}
OpKinds == {"EQ", "LT"}

\* block.add_instr(builder.new_variable(ir.BinOp(m, ty, op, a, b), block)) for
\* two instructions a and b that the block holds
BuildOp(ty, op, m, a, b) ==
    /\ Building
    /\ a \in Range(blk[Entry].instrs) /\ b \in Range(blk[Entry].instrs)
    /\ Builds(Define(MkBinOp(Cur, m, ty, op, a, b)))

NextCSE ==
    \/ \E n \in ConstNames, v \in ConstValues : BuildConst(n, v)
    \/ \E ty \in OpTypes, op \in OpKinds, a, b \in 1..MaxBlockInstr :
           BuildOp(ty, op, "y", a, b)
    \/ RunLVN

SpecCSE == InitLVN /\ [][NextCSE]_vars

\* --- the fingerprints of binary operations

\* the value number that frame F holds for instruction x
NumOf(F, x) == F.numberings[as_name(F, x)]

\* c and i are binary operations of one operator whose operands all have
\* value numbers in frame F
BinOpPair(F, c, i) ==
    /\ F.ins[c].kind = "BinOp" /\ F.ins[i].kind = "BinOp"
    /\ F.ins[c].val = F.ins[i].val
    /\ \A x \in Range(F.ins[c].ops) \cup Range(F.ins[i].ops) :
           as_name(F, x) \in DOMAIN F.numberings

\* i is `op b a` where c is `op a b`
Swapped(F, c, i) ==
    /\ BinOpPair(F, c, i)
    /\ NumOf(F, F.ins[c].ops[1]) = NumOf(F, F.ins[i].ops[2])
    /\ NumOf(F, F.ins[c].ops[2]) = NumOf(F, F.ins[i].ops[1])

\* i has the operands of c in the order of c
SameOperands(F, c, i) ==
    /\ BinOpPair(F, c, i)
    /\ NumOf(F, F.ins[c].ops[1]) = NumOf(F, F.ins[i].ops[1])
    /\ NumOf(F, F.ins[c].ops[2]) = NumOf(F, F.ins[i].ops[2])

\* the instructions that the block lists before place k
Earlier(F, k) == {F.blk[Entry].instrs[j] : j \in 1..(k - 1)}

\* in frame G the k-th place of the block holds an Id that copies c
CopyOf(G, k, c) ==
    /\ G.ins[G.blk[Entry].instrs[k]].kind = "Id"
    /\ G.ins[G.blk[Entry].instrs[k]].ops = <<c>>

\* the step of the pass at place k, from frame F to frame G, replaces every
\* commutative operation by a copy of an earlier one with swapped operands
CommutativeAt(F, G, k) ==
    \A c \in Earlier(F, k) :
        (/\ Swapped(F, c, F.blk[Entry].instrs[k])
         /\ is_commutative(F.ins[c].val)
         /\ F.ins[c].ty = F.ins[F.blk[Entry].instrs[k]].ty)
            => /\ Fingerprint(F, c) = Fingerprint(F, F.blk[Entry].instrs[k])
               /\ OK(G)
               /\ CopyOf(G, k, c)

\* C31: when the block holds t = op a b and later u = op b a with op one of
\* ADD, MUL, EQ and the same type, both have the same Value and LVN.run_pass
\* puts an Id that copies t into the place of u.
CommutativeCanonicalised ==
    [][RunLVN => \A k \in DOMAIN blk[Entry].instrs :
                     OK(AfterStep(k - 1))
                         => CommutativeAt(AfterStep(k - 1), AfterStep(k), k)]_vars

\* the step of the pass at place k keeps apart an operation that is not
\* commutative and an earlier one of the same type with swapped operands that
\* have different value numbers
OrderedAt(F, G, k) ==
    \A c \in Earlier(F, k) :
        (/\ Swapped(F, c, F.blk[Entry].instrs[k])
         /\ ~is_commutative(F.ins[c].val)
         /\ F.ins[c].ty = F.ins[F.blk[Entry].instrs[k]].ty
         /\ NumOf(F, F.ins[c].ops[1]) # NumOf(F, F.ins[c].ops[2]))
            => /\ Fingerprint(F, c) # Fingerprint(F, F.blk[Entry].instrs[k])
               /\ OK(G) => ~CopyOf(G, k, c)

\* C32: for an operator that is not ADD, MUL or EQ, op a b and op b a with
\* different a and b have different Values, and LVN.run_pass does not replace
\* one of them by a copy of the other.
OperandOrderMatters ==
    [][RunLVN => \A k \in DOMAIN blk[Entry].instrs :
                     OK(AfterStep(k - 1))
                         => OrderedAt(AfterStep(k - 1), AfterStep(k), k)]_vars

\* the step of the pass at place k keeps apart an operation and an earlier
\* one with the same operator and operands and another type
TypedAt(F, G, k) ==
    \A c \in Earlier(F, k) :
        (/\ SameOperands(F, c, F.blk[Entry].instrs[k])
         /\ F.ins[c].ty # F.ins[F.blk[Entry].instrs[k]].ty)
            => /\ Fingerprint(F, c) # Fingerprint(F, F.blk[Entry].instrs[k])
               /\ OK(G) => ~CopyOf(G, k, c)

\* C33: two instructions with the same opcode and the same operands and
\* different types have different Values, and LVN.run_pass does not replace
\* one of them by a copy of the other.
TypeInFingerprint ==
    [][RunLVN => \A k \in DOMAIN blk[Entry].instrs :
                     OK(AfterStep(k - 1))
                         => TypedAt(AfterStep(k - 1), AfterStep(k), k)]_vars

\* --- calls under local value numbering

\* the call instructions in the list of the entry block, in their order
CallsOf(b) == SelectSeq(b[Entry].instrs, LAMBDA i : i \in Calls)

RunLVNOn(b) ==
    /\ Running
    /\ b <= pc
    /\ b \in sealed_blocks
    /\ blk[b].instrs # <<>>
    /\ Install(LVN_run_pass(Cur, -1, b), FALSE)
    /\ last' = [op |-> "lvn", n |-> ""]
    /\ UNCHANGED <<cfg, pc, edits>>

NextPass ==
    \/ NextBlock
    \/ \E a, b \in Blocks : AddPred(a, b)
    \/ \E b \in Blocks : Seal(b)
    \/ \E n \in ConstNames, v \in ConstValues : EmitConst(n, v)
    \/ \E m \in CopyNames, n \in ConstNames : EmitId(m, n)
    \/ \E b \in Blocks : RunLVNOn(b)

SpecPass == InitSSA /\ [][NextPass]_vars

\* every instruction of block b reads values that are attached to blocks
ReadsAttached(b) ==
    \A i \in Range(blk[b].instrs) : \A x \in Range(ins[i].ops) : Attached(x)

\* C35: LVN.run_pass(block) completes without raising for every block of a
\* subroutine in finished SSA form (all blocks sealed) whose instructions
\* read attached values, also values of another block or of a phi.
LVNCompletes ==
    [][\A b \in Blocks :
          (RunLVNOn(b) /\ sealed_blocks = Blocks /\ ReadsAttached(b))
              => err' = "ok"]_vars

\* --- what fold_instr folds

\* the step returned a Const with the name, the type and the ssa_id of i whose
\* value is the decimal string of an integer
ReturnsConstFor(i) ==
    /\ err' = "ok"
    /\ ret' # None
    /\ ins'[ret'].kind = "Const"
    /\ ins'[ret'].name = ins[i].name
    /\ ins'[ret'].ty = ins[i].ty
    /\ ins'[ret'].ssa = ins[i].ssa
    /\ ParseInt(ins'[ret'].val).ok
    /\ ins'[ret'].val = ToString(ParseInt(ins'[ret'].val).val)

\* the step returned nothing and left every instruction as it was
ReturnsNothing ==
    /\ err' = "ok"
    /\ ret' = None
    /\ ins' = ins
    /\ blk' = blk

\* i is a BinOp with one of the six foldable operators over two constants of
\* types that have a bit-width
FoldCase(i) ==
    /\ ins[i].kind = "BinOp"
    /\ ins[i].val \in {"ADD", "SUB", "MUL", "MOD", "LSH", "RSH"}
    /\ \A k \in 1..2 : /\ ins[ins[i].ops[k]].kind = "Const"
                       /\ ins[ins[i].ops[k]].ty \notin {"STRING", "VOID"}

\* C36: fold_instr returns a Const, with the name, type and ssa_id of the
\* instruction and a decimal string as value, exactly when the instruction is
\* a BinOp with one of ADD, SUB, MUL, MOD, LSH, RSH over two Consts of types
\* with a bit-width; for every other instruction it returns nothing and
\* leaves the instruction as it is.
WhatFolds ==
    [][\A i \in 1..MaxInstr :
           Fold(i) => IF FoldCase(i) THEN ReturnsConstFor(i) ELSE ReturnsNothing]_vars

\* C37: folding a BinOp of a type I<b> gives a value in
\* [-2^(b-1), 2^(b-1) - 1] and folding one of a type U<b> a value in
\* [0, 2^b - 1].
SignednessInFolding ==
    [][\A i \in 1..MaxInstr :
           (Fold(i) /\ err' = "ok" /\ ret' # None) =>
               IF ins[i].ty \in {"U8", "U16", "U32"}
               THEN FoldedInt >= 0 /\ FoldedInt < Pow2(TypeBits[ins[i].ty])
               ELSE /\ FoldedInt >= -Pow2(TypeBits[ins[i].ty] - 1)
                    /\ FoldedInt < Pow2(TypeBits[ins[i].ty] - 1)]_vars

\* C38: fold_instr raises for no BinOp with a foldable operator and Const
\* operands, whatever their integer values are.
FoldingNeverRaises ==
    [][\A i \in 1..MaxInstr : (Fold(i) /\ FoldCase(i)) => err' = "ok"]_vars

\* --- what the dead instruction pass takes out

\* instruction i was in the list of block c before the step and is not after it
LeavesList(c, i) == i \in Range(blk[c].instrs) /\ i \notin Range(blk'[c].instrs)

\* C39: DIA.run_pass takes out of a block no call, no instruction that is not
\* an assignment and no instruction that has a user: every instruction that
\* leaves a block's list during the pass is an assignment instruction other
\* than a call that has no users.
DIARemovesOnlyDead ==
    [][\A b \in Blocks :
           RunDIA(b) =>
               \A c \in Blocks, i \in DOMAIN ins :
                   LeavesList(c, i) => /\ IsAssign(Cur, i)
                                       /\ ins[i].kind \notin CallKinds
                                       /\ ins'[i].users = <<>>]_vars

\* -------------------------------------------------------- the pass manager
\* A client registers passes with a PassManager, puts constants into the
\* blocks of the one subroutine of a module and has the manager run the passes
\* on the module.
MaxPasses == 3      \* calls of register_pass the client makes

PassLevels == {"module", "function", "block", "instruction"}

\* what the client hands to register_pass: a pass class of one of the four
\* levels or an instance of one
PassArgs == [level : PassLevels, form : {"class", "instance"}]

\* isinstance(p, <the pass class of the level>): false for a class
IsInstance(p, level) == p.form = "instance" /\ p.level = level

\* the if/elif chain of register_pass
Appended(M, p) ==
    IF IsInstance(p, "module") THEN [M EXCEPT !.module_passes = Append(@, p)]
    ELSE IF IsInstance(p, "function") THEN [M EXCEPT !.function_passes = Append(@, p)]
    ELSE IF IsInstance(p, "block") THEN [M EXCEPT !.basic_block_passes = Append(@, p)]
    ELSE IF IsInstance(p, "instruction")
         THEN [M EXCEPT !.instruction_passes = Append(@, p)]
    ELSE M

\* manager.register_pass(p): issubclass(p, Pass) raises TypeError for an
\* argument that is no class
RegisterPass(p) ==
    /\ Running
    /\ Len(manager.registered) < MaxPasses
    /\ IF p.form # "class"
       THEN err' = "TypeError" /\ manager' = manager
       ELSE err' = "ok" /\ manager' = [Appended(manager, p) EXCEPT
                                           !.registered = Append(@, p)]
    /\ last' = [op |-> "register", n |-> ""]
    /\ UNCHANGED <<ins, blk, variables, incomplete_phis, sealed_blocks, ret, cfg, pc,
                   edits>>

\* manager.run_passes(module): `mpass(module)` calls the pass object itself,
\* which is not callable, and `module.functions` reads an attribute that a
\* Module does not have (its list is `subroutines`)
RunPasses ==
    /\ Running
    /\ manager.registered # <<>>
    /\ err' = IF manager.module_passes # <<>> THEN "TypeError" ELSE "AttributeError"
    /\ manager' = manager
    /\ last' = [op |-> "run_passes", n |-> ""]
    /\ UNCHANGED <<ins, blk, variables, incomplete_phis, sealed_blocks, ret, cfg, pc,
                   edits>>

NextManager ==
    \/ \E v \in ConstValues : NewConst(v)
    \/ \E b \in Blocks, i \in 1..MaxInstr : AddInstrTo(b, i)
    \/ \E p \in PassArgs : RegisterPass(p)
    \/ RunPasses

SpecManager == Init /\ [][NextManager]_vars

\* the registered passes of one level, in registration order
OfLevel(R, level) == SelectSeq(R, LAMBDA p : p.level = level)

\* the calls of the passes ps on one item
RunsOn(ps, item) == [k \in DOMAIN ps |-> [pass |-> ps[k], item |-> item]]

\* the calls of the instruction passes ps on the instructions of a list
RECURSIVE InstrRuns(_, _)
InstrRuns(ps, is) ==
    IF is = <<>> THEN <<>>
    ELSE RunsOn(ps, <<"instruction", Head(is)>>) \o InstrRuns(ps, Tail(is))

\* the calls on block b: all block passes, then all instruction passes on
\* each of its instructions
BlockRuns(R, b) ==
    RunsOn(OfLevel(R, "block"), <<"block", b>>)
        \o InstrRuns(OfLevel(R, "instruction"), blk[b].instrs)

\* the calls that the registered passes R are to make on the module
ExpectedRuns(R) ==
    RunsOn(OfLevel(R, "module"), <<"module", 0>>)
        \o RunsOn(OfLevel(R, "function"), <<"function", 0>>)
        \o BlockRuns(R, 1) \o BlockRuns(R, 2) \o BlockRuns(R, 3)

\* C40: run_passes(module) runs every registered pass and skips none: all
\* module passes on the module, then for the subroutine all subroutine
\* passes, then for each of its blocks all block passes and for each
\* instruction of the block all instruction passes, within one level in
\* registration order.
PassDispatchOrder ==
    [][RunPasses => /\ err' = "ok"
                    /\ manager'.ran = manager.ran \o ExpectedRuns(manager.registered)]_vars

====
